---- MODULE Spec2Model ----
(***************************************************************************)
(* A model of the replica core of carbon: the discovery frame (highway),   *)
(* the prepare pipeline of the processor and the lattice-agreement runner. *)
(* The three subsystems share no state; each has its own specification     *)
(* (SpecFrame, SpecPrepare, SpecLattice) over its own variables, the       *)
(* variables of the other two staying at their initial values.             *)
(***************************************************************************)
EXTENDS Integers, Sequences, FiniteSets, TLC

(***************************************************************************)
(* Bounds of the model.                                                    *)
(***************************************************************************)
GenesisHeight == 1
MaxHeight == 5

MaxId == 2
MaxPrepareHeight == 2
MaxBatchLen == 2
MaxSessions == 2
MaxConcurrent == 1

NumReplicas == 4
MaxProposers == 3

MaxCertifiers == 2

MaxByzantineMessages == 1

(***************************************************************************)
(* State.                                                                  *)
(***************************************************************************)
\* discovery::Frame (base, highway, metadata, lookup) and what the frame tests
\* keep beside it: the tailless destinations fed so far, whether every install
\* fed so far was attached to the highway, the Option the last update returned
\* and the top of the frame it was called on.
VARIABLES base, highway, metadata, lookup, tailless, connected, updated, previous_top

\* The processor's database (assignments; prepare.states, prepare.stale,
\* prepare.batches) and its prepare sessions: where each session stands
\* (session_at), what it holds across its suspension points (session_prepares,
\* session_signatures, session_unknown_ids) and what it sent or how it ended
\* (session_sent, session_error).  commits is the history of the passes through
\* the locked section of serve_prepare, in lock order: the witnessed batch and
\* the commit shard it ended with (or that it panicked).
VARIABLES assignments, states, stale, batches,
          session_at, session_prepares, session_signatures, session_unknown_ids,
          session_sent, session_error, commits

\* The lattice-agreement instance of a view: for every member r its
\* LatticeAgreement (proposal_inlet, result_outlet,
\* decision_outlet), its LatticeRunner (state, proposal_outlet, proposed,
\* decision_inlet, database: database_disclosed, delivered, safe_set,
\* proposed_set, accepted_set, certification) and the messages in flight:
\* disclosure_sends[r] the DisclosureSend broadcasts r made, requests and
\* responses the certification messages not handled yet.  decide_runs counts
\* the runs of decide, panicked tells that the runner's task panicked,
\* byzantine_messages counts the messages that byzantine members made up.
VARIABLES state, proposal_inlet, proposal_outlet, proposed, result_outlet,
          database_disclosed, disclosure_sends, delivered, safe_set, proposed_set,
          accepted_set, certification, decision_inlet, decision_outlet,
          requests, responses, decide_runs, panicked, byzantine_messages

\* Voidable<Database>: whether Processor::shutdown has voided the database, and
\* the Database that shutdown handed back.
VARIABLES database_void, shutdown_database

\* The validators: the Equivocation handed to Equivocation::validate, if any,
\* and what validate returned for it.
VARIABLES equivocation, validation

\* The process-wide registry of views that View::get reads, and what the last
\* deserialization of an Install returned.
VARIABLES registry, deserialized

\* tests::manual: the installs the test has passed to Frame::update, in order.
VARIABLES applied

\* The DisclosureDatabase of one runner (disclosures_received, echoes_sent,
\* echoes_collected, echo_support, ready_sent, ready_collected, ready_support;
\* its delivered and safe_set are those of the runner above) and the echo and
\* ready broadcasts it has spawned, in order.
VARIABLES disclosures_received, echoes_sent, echoes_collected, echo_support,
          ready_sent, ready_collected, ready_support, echo_broadcasts,
          ready_broadcasts

\* The other correct members of the view, as far as the runner above sees them:
\* the disclosures of the origin each is ready for and has delivered.
VARIABLES peer_ready, peer_delivered

\* database.signup of the processor: the claim stored for each id
\* (signup.claims), the ids claimed (signup.claimed), and what the last call of
\* id_claims returned.
VARIABLES signup_claims, signup_claimed, signup_response

frameVars ==
  <<base, highway, metadata, lookup, tailless, connected, updated, previous_top>>

voidableVars == <<database_void, shutdown_database>>

prepareVars ==
  <<assignments, states, stale, batches,
    session_at, session_prepares, session_signatures, session_unknown_ids,
    session_sent, session_error, commits, voidableVars>>

latticeVars ==
  <<state, proposal_inlet, proposal_outlet, proposed, result_outlet,
    database_disclosed, disclosure_sends, delivered, safe_set, proposed_set,
    accepted_set, certification, decision_inlet, decision_outlet,
    requests, responses, decide_runs, panicked, byzantine_messages>>

validatorVars == <<equivocation, validation, registry, deserialized>>

manualVars == <<applied>>

disclosureVars ==
  <<disclosures_received, echoes_sent, echoes_collected, echo_support,
    ready_sent, ready_collected, ready_support, echo_broadcasts, ready_broadcasts,
    peer_ready, peer_delivered>>

signupVars == <<signup_claims, signup_claimed, signup_response>>

vars ==
  <<frameVars, prepareVars, latticeVars, validatorVars, manualVars, disclosureVars,
    signupVars>>

(***************************************************************************)
(* PART I.  discovery/frame.rs                                             *)
(***************************************************************************)
Heights == GenesisHeight..MaxHeight

\* An install, seen through the transition it yields: the heights of its source
\* and destination views and whether its tail is empty.  Install::check refuses
\* an install without increments, so the destination is above the source.
Installs ==
  {i \in [source_height : Heights, destination_height : Heights, tailless : BOOLEAN] :
     i.source_height < i.destination_height}

\* Metadata of the transition of an install (Frame::acquire, lines 70-74).
into_transition(install) ==
  [source_height |-> install.source_height,
   destination_height |-> install.destination_height,
   tailless |-> install.tailless]

\* [T]::binary_search_by_key over keys[1..Len]: 0 for Err(_), k for Ok(k - 1).
RECURSIVE binary_search(_, _, _, _)
binary_search(keys, key, left, right) ==
  IF left >= right THEN 0
  ELSE LET mid == left + ((right - left) \div 2) IN
       IF keys[mid + 1] = key THEN mid + 1
       ELSE IF keys[mid + 1] < key THEN binary_search(keys, key, mid + 1, right)
       ELSE binary_search(keys, key, left, mid)

\* 0 stands for None, k >= 1 for Some(k - 1).
locate_by_source(md, height) ==
  binary_search([k \in 1..Len(md) |-> md[k].source_height], height, 0, Len(md))

locate_by_destination(md, height) ==
  binary_search([k \in 1..Len(md) |-> md[k].destination_height], height, 0, Len(md))

top(b, md) == IF Len(md) = 0 THEN b ELSE md[Len(md)].destination_height

FrameTop == top(base, metadata)

can_grow_by(b, md, transition) == transition.destination_height > top(b, md)

\* Mutant of can_improve_by: source <= destination instead of source < destination.
can_improve_by_or_equal(md, transition) ==
  LET source == locate_by_source(md, transition.source_height)
      destination == locate_by_destination(md, transition.destination_height)
  IN  /\ source # 0
      /\ destination # 0
      /\ \/ source <= destination
         \/ transition.tailless /\ ~md[destination].tailless

can_improve_by(md, transition) ==
  LET source == locate_by_source(md, transition.source_height)
      destination == locate_by_destination(md, transition.destination_height)
  IN  /\ source # 0
      /\ destination # 0
      /\ \/ source < destination
         \/ transition.tailless /\ ~md[destination].tailless

\* ShiftVec::push until len() reaches `upto`: len() counts the shift (the base),
\* so the vector holds one entry per height in [base, len()).
ShiftVecFill(b, lk, upto, value) ==
  lk \o [k \in 1..(IF upto - b > Len(lk) THEN upto - b - Len(lk) ELSE 0) |-> value]

\* Mutant of lookup_scan: every install is taken for tailless.
RECURSIVE lookup_scan_every_install(_, _, _, _, _)
lookup_scan_every_install(b, md, index, lk, last_tailless) ==
  IF index > Len(md) THEN <<lk, last_tailless>>
  ELSE lookup_scan_every_install(b, md, index + 1,
                        ShiftVecFill(b, lk, md[index].destination_height, last_tailless),
                        index)

\* Mutant of lookup_scan: last_tailless = index + 2 instead of index + 1.
RECURSIVE lookup_scan_skips_one(_, _, _, _, _)
lookup_scan_skips_one(b, md, index, lk, last_tailless) ==
  IF index > Len(md) THEN <<lk, last_tailless>>
  ELSE IF md[index].tailless
       THEN lookup_scan_skips_one(b, md, index + 1,
                        ShiftVecFill(b, lk, md[index].destination_height, last_tailless),
                        index + 1)
       ELSE lookup_scan_skips_one(b, md, index + 1, lk, last_tailless)

\* Mutant of lookup_scan: last_tailless = index instead of index + 1, the
\* tailless install itself.
RECURSIVE lookup_scan_at_tailless(_, _, _, _, _)
lookup_scan_at_tailless(b, md, index, lk, last_tailless) ==
  IF index > Len(md) THEN <<lk, last_tailless>>
  ELSE IF md[index].tailless
       THEN lookup_scan_at_tailless(b, md, index + 1,
                        ShiftVecFill(b, lk, md[index].destination_height, last_tailless),
                        index - 1)
       ELSE lookup_scan_at_tailless(b, md, index + 1, lk, last_tailless)

\* The scan of Frame::acquire (lines 84-91) from position `index` (1-based) on:
\* <<lookup, last_tailless>>, last_tailless being a 0-based highway index.
RECURSIVE lookup_scan(_, _, _, _, _)
lookup_scan(b, md, index, lk, last_tailless) ==
  IF index > Len(md) THEN <<lk, last_tailless>>
  ELSE IF md[index].tailless
       THEN lookup_scan(b, md, index + 1,
                        ShiftVecFill(b, lk, md[index].destination_height, last_tailless),
                        index)
       ELSE lookup_scan(b, md, index + 1, lk, last_tailless)

\* Mutant of acquire: the suffix that starts at the destination is left out.
acquire_without_suffix(b, hw, md, install) ==
  LET transition == into_transition(install)
      to == locate_by_destination(md, transition.source_height)
      new_highway == (IF to # 0 THEN SubSeq(hw, 1, to) ELSE <<>>) \o <<install>>
      new_metadata == (IF to # 0 THEN SubSeq(md, 1, to) ELSE <<>>) \o <<transition>>
      scan == lookup_scan(b, new_metadata, 1, <<>>, 0)
      new_top == new_metadata[Len(new_metadata)].destination_height
  IN  [highway |-> new_highway,
       metadata |-> new_metadata,
       lookup |-> ShiftVecFill(b, scan[1], new_top, scan[2])]

\* Mutant of acquire: the prefix runs up to the install that starts at the
\* source instead of the one that ends there.
acquire_prefix_by_source(b, hw, md, install) ==
  LET transition == into_transition(install)
      to == locate_by_source(md, transition.source_height)
      from == locate_by_source(md, transition.destination_height)
      new_highway == (IF to # 0 THEN SubSeq(hw, 1, to) ELSE <<>>)
                       \o <<install>>
                       \o (IF from # 0 THEN SubSeq(hw, from, Len(hw)) ELSE <<>>)
      new_metadata == (IF to # 0 THEN SubSeq(md, 1, to) ELSE <<>>)
                        \o <<transition>>
                        \o (IF from # 0 THEN SubSeq(md, from, Len(md)) ELSE <<>>)
      scan == lookup_scan(b, new_metadata, 1, <<>>, 0)
      new_top == new_metadata[Len(new_metadata)].destination_height
  IN  [highway |-> new_highway,
       metadata |-> new_metadata,
       lookup |-> ShiftVecFill(b, scan[1], new_top, scan[2])]

\* Frame::acquire: prefix up to the install that ends at the source, the install,
\* suffix from the install that starts at the destination; then the lookup table.
acquire(b, hw, md, install) ==
  LET transition == into_transition(install)
      to == locate_by_destination(md, transition.source_height)
      from == locate_by_source(md, transition.destination_height)
      new_highway == (IF to # 0 THEN SubSeq(hw, 1, to) ELSE <<>>)
                       \o <<install>>
                       \o (IF from # 0 THEN SubSeq(hw, from, Len(hw)) ELSE <<>>)
      new_metadata == (IF to # 0 THEN SubSeq(md, 1, to) ELSE <<>>)
                        \o <<transition>>
                        \o (IF from # 0 THEN SubSeq(md, from, Len(md)) ELSE <<>>)
      scan == lookup_scan(b, new_metadata, 1, <<>>, 0)
      new_top == new_metadata[Len(new_metadata)].destination_height
  IN  [highway |-> new_highway,
       metadata |-> new_metadata,
       lookup |-> ShiftVecFill(b, scan[1], new_top, scan[2])]

\* Frame::lookup: the suffix of the highway from lookup[height] on.
Frame_lookup(b, hw, md, lk, height) ==
  LET t == top(b, md)
      h == IF height < b THEN b ELSE IF height > t THEN t ELSE height
  IN  IF h < t THEN SubSeq(hw, lk[h - b + 1] + 1, Len(hw)) ELSE <<>>

\* view::test::last_installable: for a height, the latest tailless destination
\* not above it, the genesis height when there is none.
last_installable(b, tl, height) ==
  LET below == {t \in tl : t <= height} \cup {b}
  IN  CHOOSE m \in below : \A x \in below : x <= m

\* view::test::Client::update: the client applies, in order, every install that
\* starts at or after its last installable view and not after its current view,
\* and that ends above its current view.
RECURSIVE Client_update(_, _, _)
Client_update(current, installable, installs) ==
  IF Len(installs) = 0 THEN current
  ELSE LET t == into_transition(Head(installs)) IN
       IF /\ installable <= t.source_height
          /\ t.source_height <= current
          /\ t.destination_height > current
       THEN Client_update(t.destination_height,
                          IF t.tailless THEN t.destination_height ELSE installable,
                          Tail(installs))
       ELSE Client_update(current, installable, Tail(installs))

\* The source of the install is a view the highway passes through.
Attached(b, md, install) ==
  \/ install.source_height = b
  \/ \E k \in 1..Len(md) : md[k].destination_height = install.source_height

InitFrame ==
  /\ base = GenesisHeight
  /\ highway = <<>>
  /\ metadata = <<>>
  /\ lookup = <<>>
  /\ tailless = {}
  /\ connected = TRUE
  /\ updated = "genesis"
  /\ previous_top = GenesisHeight
  /\ applied = <<>>

\* Frame::update on the frame held (lines 30-38), the frame kept on None, with
\* what tests::stress_light_checks notes at each round (lines 355-365): the
\* tailless destinations, the top before the update.
update(install) ==
  /\ tailless' = IF install.tailless
                 THEN tailless \cup {install.destination_height}
                 ELSE tailless
  /\ connected' = (connected /\ Attached(base, metadata, install))
  /\ base' = base
  /\ previous_top' = FrameTop
  /\ IF \/ can_grow_by(base, metadata, into_transition(install))
        \/ can_improve_by(metadata, into_transition(install))
     THEN LET new == acquire(base, highway, metadata, install) IN
          /\ highway' = new.highway
          /\ metadata' = new.metadata
          /\ lookup' = new.lookup
          /\ updated' = "Some"
     ELSE /\ UNCHANGED <<highway, metadata, lookup>>
          /\ updated' = "None"

\* One round of the loop of tests::stress_light_checks (lines 355-365).
FrameUpdate(install) ==
  /\ update(install)
  /\ UNCHANGED <<prepareVars, latticeVars, validatorVars, manualVars, disclosureVars, signupVars>>

NextFrame == \E install \in Installs : FrameUpdate(install)

\* tests::manual (lines 179-211): the genesis height and the six installs of
\* the test, in the order in which it applies them.
ManualGenesisHeight == 10

ManualScript ==
  << [source_height |-> 10, destination_height |-> 15, tailless |-> FALSE],
     [source_height |-> 15, destination_height |-> 20, tailless |-> FALSE],
     [source_height |-> 20, destination_height |-> 25, tailless |-> TRUE],
     [source_height |-> 25, destination_height |-> 30, tailless |-> FALSE],
     [source_height |-> 30, destination_height |-> 35, tailless |-> TRUE],
     [source_height |-> 35, destination_height |-> 40, tailless |-> TRUE] >>

ManualInstalls == {ManualScript[k] : k \in DOMAIN ManualScript}

\* setup(GENESIS_HEIGHT, MAX_HEIGHT): the genesis frame of the test.
InitManual ==
  /\ base = ManualGenesisHeight
  /\ highway = <<>>
  /\ metadata = <<>>
  /\ lookup = <<>>
  /\ tailless = {}
  /\ connected = TRUE
  /\ updated = "genesis"
  /\ previous_top = ManualGenesisHeight
  /\ applied = <<>>

\* One update of the test, on any of its installs: as many updates as the
\* test makes, in any order.
ManualUpdate(install) ==
  /\ Len(applied) < Len(ManualScript)
  /\ update(install)
  /\ applied' = Append(applied, install)
  /\ UNCHANGED <<prepareVars, latticeVars, validatorVars, disclosureVars, signupVars>>

NextManual == \E install \in ManualInstalls : ManualUpdate(install)

(***************************************************************************)
(* PART II.  processing/processor/prepare/prepare.rs                       *)
(***************************************************************************)
Ids == 1..MaxId

PrepareHeights == 1..MaxPrepareHeight

\* Commitments are hashes the code only compares for equality.
Commitments == {"c1", "c2"}

Sessions == 1..MaxSessions

\* prepare::Prepare
Prepare == [id : Ids, height : PrepareHeights, commitment : Commitments]

\* zebra Vector<Prepare>: the ordered vector of a batch.
Vectors == UNION {[1..n -> Prepare] : n \in 1..MaxBatchLen}

\* Vector::root / SignedBatch::root: the Merkle root commits to the whole
\* vector, two vectors have the same root only if they are the same vector.
root(vector) == [merkle |-> vector]

\* A witness certificate, by what verify_plurality(view, WitnessStatement(root))
\* answers for it on the batch it comes with.
Witnesses == {"plurality", "short"}

verify_plurality(witness) == witness = "plurality"

\* window[0].id() < window[1].id() for all windows(2) (lines 87-93)
strictly_increasing(vector) ==
  \A k \in 1..(Len(vector) - 1) : vector[k].id < vector[k + 1].id

\* The Prepares requests a broker may open a session with.
PreparesRequests == [tag : {"Prepares"}, prepares : Vectors]

\* The Witness requests a broker may send for `vector`.  A certificate of a
\* plurality holds the shard of at least one correct replica, which signs a
\* witness shard only for a batch that passed its own lines 87-93: no such
\* certificate exists for a batch whose ids are not strictly increasing.
WitnessRequests(vector) ==
  {[tag |-> "Witness", witness |-> witness] :
     witness \in {w \in Witnesses : w = "plurality" => strictly_increasing(vector)}}

\* An individual signature is absent ("None"), or verifies against the keycard
\* assigned to the id of its prepare ("valid"), or does not ("invalid").  A
\* reduction multi-signature is given by the set of ids whose keycards signed
\* ReductionStatement(root) in it; one that is not genuine verifies for no set
\* of signers.
Signatures(signers, genuine, individual) ==
  [tag |-> "Signatures",
   reduction |-> [signers |-> signers, genuine |-> genuine],
   individual |-> individual]

\* The Signatures requests a broker may send for `vector`: every prepare reduced,
\* every prepare individually signed, a forged reduction, an individual
\* signature that does not verify, and an individual vector one short, signed
\* individually or reduced.
SignaturesRequests(vector) ==
  LET n == Len(vector)
      all == {vector[k].id : k \in 1..n}
  IN  {Signatures(all, TRUE, [k \in 1..n |-> "None"]),
       Signatures({}, TRUE, [k \in 1..n |-> "valid"]),
       Signatures(all, FALSE, [k \in 1..n |-> "None"]),
       Signatures({}, TRUE, [k \in 1..n |-> IF k = n THEN "invalid" ELSE "valid"]),
       Signatures({}, TRUE, [k \in 1..(n - 1) |-> "valid"]),
       Signatures({vector[k].id : k \in 1..(n - 1)}, TRUE, [k \in 1..(n - 1) |-> "None"])}

\* The Assignments requests a broker may answer UnknownIds(unknown) with; an
\* IdAssignment is given by its id and by what validate(discovery) answers.
AssignmentsRequests(unknown) ==
  LET n == Len(unknown)
      other(id) == IF id = MaxId THEN 1 ELSE id + 1
  IN  {[tag |-> "Assignments", assignments |-> list] :
         list \in {[k \in 1..n |-> [id |-> unknown[k], valid |-> TRUE]],
                   [k \in 1..n |-> [id |-> unknown[k], valid |-> k < n]],
                   [k \in 1..n |-> [id |-> IF k = n THEN other(unknown[k]) ELSE unknown[k],
                                    valid |-> TRUE]],
                   [k \in 1..(n - 1) |-> [id |-> unknown[k], valid |-> TRUE]]}}

\* processing::messages::PrepareRequest: the requests a broker may send to a
\* session at `at`, one of them of a kind the session does not expect there.
PrepareRequests(at, vector, unknown) ==
  IF at = "receive_prepares"
  THEN PreparesRequests \cup {[tag |-> "Witness", witness |-> "plurality"]}
  ELSE IF at = "receive_batch"
  THEN WitnessRequests(vector) \cup SignaturesRequests(vector) \cup {[tag |-> "Prepares", prepares |-> vector]}
  ELSE IF at = "receive_assignments"
  THEN AssignmentsRequests(unknown) \cup {[tag |-> "Witness", witness |-> "plurality"]}
  ELSE IF at = "receive_witness"
  THEN WitnessRequests(vector) \cup {[tag |-> "Prepares", prepares |-> vector]}
  ELSE {}

\* WitnessedBatch::new
WitnessedBatch(vector, witness) == [prepares |-> vector, witness |-> witness]

\* WitnessedBatch::extract: the prepare at `index` (0-based) with the root, the
\* witness and the inclusion proof of that position.
extract(batch, index) ==
  [root |-> root(batch.prepares),
   witness |-> batch.witness,
   inclusion |-> index,
   prepare |-> batch.prepares[index + 1]]

\* database::prepare::State and PrepareHandle
NoState == [tag |-> "None"]

Batched(batch_root, index) == [tag |-> "Batched", batch |-> batch_root, index |-> index]

Consistent(height, commitment, handle, is_stale) ==
  [tag |-> "Consistent", height |-> height, commitment |-> commitment,
   prepare |-> handle, stale |-> is_stale]

\* Equivocation::new(lhe, rhe)
Equivocated(lhe, rhe) == [tag |-> "Equivocated", equivocation |-> <<lhe, rhe>>]

\* The same-height branch without its `continue`: an equal commitment is
\* handled as a different one.
same_height_without_continue(db_batches, id_state, batch, index, commitment) ==
  IF id_state.prepare.tag = "Batched" /\ id_state.prepare.batch \notin DOMAIN db_batches
  THEN <<id_state, FALSE, TRUE, FALSE>>
  ELSE LET state_extract ==
             IF id_state.prepare.tag = "Batched"
             THEN extract(db_batches[id_state.prepare.batch], id_state.prepare.index)
             ELSE id_state.prepare.extract
       IN  <<Equivocated(extract(batch, index), state_extract), ~id_state.stale, FALSE, FALSE>>

\* The same-height branch of serve_prepare (lines 241-265): <<id_state, staled,
\* panicked>>.  The extract of the recorded prepare is taken from
\* database.prepare.batches (unwrap: a panic when the batch is not there) or
\* from the handle itself.
same_height(db_batches, id_state, batch, index, commitment) ==
  IF commitment = id_state.commitment
  THEN <<id_state, FALSE, FALSE, TRUE>>
  ELSE IF id_state.prepare.tag = "Batched" /\ id_state.prepare.batch \notin DOMAIN db_batches
       THEN <<id_state, FALSE, TRUE, FALSE>>
       ELSE LET state_extract ==
                  IF id_state.prepare.tag = "Batched"
                  THEN extract(db_batches[id_state.prepare.batch], id_state.prepare.index)
                  ELSE id_state.prepare.extract
            IN  <<Equivocated(extract(batch, index), state_extract), ~id_state.stale, FALSE, FALSE>>

\* The loop's round with an overwrite at another height that never marks the
\* id stale.
serve_one_overwrite_not_staled(db_batches, id_state, batch, index) ==
  LET prepare == batch.prepares[index + 1]
      handle == Batched(root(batch.prepares), index)
  IN  IF id_state.tag = "Consistent"
      THEN IF prepare.height = id_state.height
           THEN same_height(db_batches, id_state, batch, index, prepare.commitment)
           ELSE <<Consistent(prepare.height, prepare.commitment, handle, TRUE),
                  FALSE, FALSE, FALSE>>
      ELSE IF id_state.tag = "Equivocated"
           THEN <<id_state, FALSE, FALSE, FALSE>>
           ELSE <<Consistent(prepare.height, prepare.commitment, handle, TRUE),
                  TRUE, FALSE, FALSE>>

\* One round of the loop of serve_prepare (lines 227-304) for the prepare at
\* `index` (0-based): <<id_state, staled, panicked, skipped>>, skipped for `continue`.
serve_one(db_batches, id_state, batch, index) ==
  LET prepare == batch.prepares[index + 1]
      handle == Batched(root(batch.prepares), index)
  IN  IF id_state.tag = "Consistent"
      THEN IF prepare.height = id_state.height
           THEN same_height(db_batches, id_state, batch, index, prepare.commitment)
           ELSE <<Consistent(prepare.height, prepare.commitment, handle, TRUE),
                  ~id_state.stale, FALSE, FALSE>>
      ELSE IF id_state.tag = "Equivocated"
           THEN <<id_state, FALSE, FALSE, FALSE>>
           ELSE <<Consistent(prepare.height, prepare.commitment, handle, TRUE),
                  TRUE, FALSE, FALSE>>

\* The loop of serve_prepare from `index` on, over the database's states and
\* stale set and the exceptions collected so far.
RECURSIVE serve_loop(_, _, _, _, _, _)
serve_loop(db_batches, db_states, db_stale, batch, index, exceptions) ==
  IF index >= Len(batch.prepares)
  THEN [states |-> db_states, stale |-> db_stale, exceptions |-> exceptions, panicked |-> FALSE]
  ELSE LET id == batch.prepares[index + 1].id
           one == serve_one(db_batches, db_states[id], batch, index)
       IN  IF one[3]
           THEN [states |-> db_states, stale |-> db_stale, exceptions |-> exceptions,
                 panicked |-> TRUE]
           ELSE IF one[4]
           THEN serve_loop(db_batches, db_states, db_stale, batch, index + 1, exceptions)
           ELSE serve_loop(db_batches,
                           [db_states EXCEPT ![id] = one[1]],
                           IF one[2] THEN db_stale \cup {id} ELSE db_stale,
                           batch, index + 1,
                           IF one[1].tag = "Equivocated"
                           THEN Append(exceptions, one[1].equivocation)
                           ELSE exceptions)

\* BatchCommitShard::new(keychain, view, root, exceptions)
BatchCommitShard(batch_root, exceptions) ==
  [tag |-> "CommitShard", root |-> batch_root, exceptions |-> exceptions]

\* The ids of `vector` without a stored assignment, in batch order (lines 95-106).
RECURSIVE unknown_ids_of(_, _)
unknown_ids_of(db_assignments, vector) ==
  IF Len(vector) = 0 THEN <<>>
  ELSE (IF Head(vector).id \in db_assignments THEN <<>> ELSE <<Head(vector).id>>)
         \o unknown_ids_of(db_assignments, Tail(vector))

\* Lines 132-139 without validate(discovery): the ids are compared and nothing else.
assignments_match_without_validate(unknown, list) ==
  \A k \in 1..(IF Len(unknown) < Len(list) THEN Len(unknown) ELSE Len(list)) :
    list[k].id = unknown[k]

\* Lines 126-141: the assignments answer the unknown ids one by one.
assignments_match(unknown, list) ==
  \A k \in 1..(IF Len(unknown) < Len(list) THEN Len(unknown) ELSE Len(list)) :
    list[k].id = unknown[k] /\ list[k].valid

\* Lines 161-185: prepares and individual signatures are zipped; a present
\* signature must verify, an absent one puts the keycard among the reduction
\* signers, and the reduction signature must verify for exactly those signers.
signatures_verify(vector, signatures) ==
  LET zipped == 1..(IF Len(vector) < Len(signatures.individual)
                    THEN Len(vector) ELSE Len(signatures.individual))
      reduction_signers == {vector[k].id : k \in {j \in zipped : signatures.individual[j] = "None"}}
  IN  /\ \A k \in zipped : signatures.individual[k] # "invalid"
      /\ signatures.reduction.genuine
      /\ signatures.reduction.signers = reduction_signers

InitPrepare ==
  /\ assignments = {}
  /\ states = [id \in Ids |-> NoState]
  /\ stale = {}
  /\ batches = <<>>
  /\ session_at = [s \in Sessions |-> "accept"]
  /\ session_prepares = [s \in Sessions |-> <<>>]
  /\ session_signatures = [s \in Sessions |-> NoState]
  /\ session_unknown_ids = [s \in Sessions |-> <<>>]
  /\ session_sent = [s \in Sessions |-> <<>>]
  /\ session_error = [s \in Sessions |-> "None"]
  /\ commits = <<>>
  /\ database_void = FALSE
  /\ shutdown_database = NoState

\* serve_prepare returns: the locals of the session are dropped.
Return(s) ==
  /\ session_at' = [session_at EXCEPT ![s] = "done"]
  /\ session_prepares' = [session_prepares EXCEPT ![s] = <<>>]
  /\ session_signatures' = [session_signatures EXCEPT ![s] = NoState]
  /\ session_unknown_ids' = [session_unknown_ids EXCEPT ![s] = <<>>]

\* The session ends with an error, the database as it is.
Fail(s, error) ==
  /\ Return(s)
  /\ session_error' = [session_error EXCEPT ![s] = error]
  /\ UNCHANGED <<assignments, states, stale, batches, session_sent, commits>>

\* run_prepare (lines 43-55): the listener accepts a session and spawns
\* serve_prepare for it; at most MaxConcurrent sessions are being served.
Accept(s) ==
  /\ session_at[s] = "accept"
  /\ UNCHANGED <<frameVars, latticeVars, validatorVars, manualVars, disclosureVars, voidableVars, signupVars>>
  /\ \A t \in Sessions : t < s => session_at[t] # "accept"
  /\ Cardinality({t \in Sessions : session_at[t] \notin {"accept", "done"}}) < MaxConcurrent
  /\ session_at' = [session_at EXCEPT ![s] = "receive_prepares"]
  /\ UNCHANGED <<assignments, states, stale, batches, session_prepares,
                 session_signatures, session_unknown_ids, session_sent, session_error,
                 commits>>

\* A receive or a send of the session fails (ConnectionError).
Disconnect(s) ==
  /\ session_at[s] \notin {"accept", "done"}
  /\ UNCHANGED <<frameVars, latticeVars, validatorVars, manualVars, disclosureVars, voidableVars, signupVars>>
  /\ Fail(s, "ConnectionError")

\* Lines 65-73: the first request must be Prepares.
ReceivePrepares(s, request) ==
  /\ session_at[s] = "receive_prepares"
  /\ UNCHANGED <<frameVars, latticeVars, validatorVars, manualVars, disclosureVars, voidableVars, signupVars>>
  /\ IF request.tag = "Prepares"
     THEN /\ session_prepares' = [session_prepares EXCEPT ![s] = request.prepares]
          /\ session_at' = [session_at EXCEPT ![s] = "receive_batch"]
          /\ UNCHANGED <<assignments, states, stale, batches, session_signatures,
                         session_unknown_ids, session_sent, session_error, commits>>
     ELSE Fail(s, "UnexpectedRequest")

\* Mutant of Commit: the loop runs without the lock of lines 222-226.
Commit_without_lock(s, batch) ==
  LET served == serve_loop(batches, states, stale, batch, 0, <<>>) IN
  /\ states' = served.states
  /\ stale' = served.stale
  /\ Return(s)
  /\ IF served.panicked
     THEN /\ session_error' = [session_error EXCEPT ![s] = "Panic"]
          /\ commits' = Append(commits, [batch |-> batch, shard |-> [tag |-> "Panic"]])
          /\ UNCHANGED session_sent
     ELSE LET shard == BatchCommitShard(root(batch.prepares), served.exceptions) IN
          /\ session_sent' = [session_sent EXCEPT ![s] = Append(@, shard)]
          /\ commits' = Append(commits, [batch |-> batch, shard |-> shard])
          /\ UNCHANGED session_error
  /\ UNCHANGED batches

\* Lines 219-314: under the database lock the loop updates the state of every id
\* of the batch; then the commit shard is sent (and serve_prepare ends).
Commit(s, batch) ==
  IF database_void
  THEN Fail(s, "DatabaseVoid")
  ELSE
       LET served == serve_loop(batches, states, stale, batch, 0, <<>>) IN
       /\ states' = served.states
       /\ stale' = served.stale
       /\ Return(s)
       /\ IF served.panicked
          THEN /\ session_error' = [session_error EXCEPT ![s] = "Panic"]
               /\ commits' = Append(commits, [batch |-> batch, shard |-> [tag |-> "Panic"]])
               /\ UNCHANGED session_sent
          ELSE LET shard == BatchCommitShard(root(batch.prepares), served.exceptions) IN
               /\ session_sent' = [session_sent EXCEPT ![s] = Append(@, shard)]
               /\ commits' = Append(commits, [batch |-> batch, shard |-> shard])
               /\ UNCHANGED session_error
       /\ UNCHANGED batches

\* Lines 156-194: the signatures are verified and the witness shard is sent.
VerifyAndWitness(s, signatures) ==
  IF signatures_verify(session_prepares[s], signatures)
  THEN /\ session_sent' = [session_sent EXCEPT ![s] = Append(@, [tag |-> "WitnessShard"])]
       /\ session_at' = [session_at EXCEPT ![s] = "receive_witness"]
       /\ session_signatures' = [session_signatures EXCEPT ![s] = NoState]
       /\ session_unknown_ids' = [session_unknown_ids EXCEPT ![s] = <<>>]
       /\ UNCHANGED <<session_error, session_prepares>>
  ELSE /\ Return(s)
       /\ session_error' = [session_error EXCEPT ![s] = "InvalidBatch"]
       /\ UNCHANGED session_sent

\* Lines 75-217: the second request is the witness (fast path) or the signatures.
ReceiveBatch(s, request) ==
  /\ session_at[s] = "receive_batch"
  /\ UNCHANGED <<frameVars, latticeVars, validatorVars, manualVars, disclosureVars, voidableVars, signupVars>>
  /\ IF request.tag = "Witness"
     THEN /\ Commit(s, WitnessedBatch(session_prepares[s], request.witness))
          /\ UNCHANGED assignments
     ELSE IF request.tag = "Signatures"
     THEN IF ~strictly_increasing(session_prepares[s])
          THEN Fail(s, "MalformedBatch")
          ELSE IF database_void
          THEN Fail(s, "DatabaseVoid")
          ELSE LET unknown == unknown_ids_of(assignments, session_prepares[s])
                   signatures == [reduction |-> request.reduction,
                                  individual |-> request.individual]
               IN  /\ IF unknown # <<>>
                      THEN /\ session_sent' =
                                [session_sent EXCEPT
                                   ![s] = Append(@, [tag |-> "UnknownIds", ids |-> unknown])]
                           /\ session_unknown_ids' = [session_unknown_ids EXCEPT ![s] = unknown]
                           /\ session_signatures' = [session_signatures EXCEPT ![s] = signatures]
                           /\ session_at' = [session_at EXCEPT ![s] = "receive_assignments"]
                           /\ UNCHANGED <<session_error, session_prepares>>
                      ELSE VerifyAndWitness(s, signatures)
                   /\ UNCHANGED <<assignments, states, stale, batches, commits>>
     ELSE Fail(s, "UnexpectedRequest")

\* Lines 114-194: the assignments of the unknown ids are checked and stored, then
\* the signatures are verified.
ReceiveAssignments(s, request) ==
  /\ session_at[s] = "receive_assignments"
  /\ UNCHANGED <<frameVars, latticeVars, validatorVars, manualVars, disclosureVars, voidableVars, signupVars>>
  /\ IF request.tag # "Assignments"
     THEN Fail(s, "UnexpectedRequest")
     ELSE IF Len(request.assignments) # Len(session_unknown_ids[s])
     THEN Fail(s, "MalformedIdAssignments")
     ELSE IF ~assignments_match(session_unknown_ids[s], request.assignments)
     THEN Fail(s, "InvalidIdAssignment")
     ELSE IF database_void
     THEN Fail(s, "DatabaseVoid")
     ELSE /\ assignments' =
               assignments \cup {request.assignments[k].id : k \in 1..Len(request.assignments)}
          /\ VerifyAndWitness(s, session_signatures[s])
          /\ UNCHANGED <<states, stale, batches, commits>>

\* Lines 196-214: the witness of a signed batch is verified at plurality.
ReceiveWitness(s, request) ==
  /\ session_at[s] = "receive_witness"
  /\ UNCHANGED <<frameVars, latticeVars, validatorVars, manualVars, disclosureVars, voidableVars, signupVars>>
  /\ IF request.tag # "Witness"
     THEN Fail(s, "UnexpectedRequest")
     ELSE IF ~verify_plurality(request.witness)
     THEN Fail(s, "InvalidWitness")
     ELSE /\ Commit(s, WitnessedBatch(session_prepares[s], request.witness))
          /\ UNCHANGED assignments

\* The Database of database.rs with the prepare states that serve_prepare
\* keeps in it.
Database ==
  [assignments |-> assignments, states |-> states, stale |-> stale, batches |-> batches]

\* Processor::shutdown (processor/mod.rs lines 55-57): the database is voided
\* and handed back; shutdown consumes the processor, so it runs once.
Shutdown ==
  /\ ~database_void
  /\ database_void' = TRUE
  /\ shutdown_database' = Database
  /\ UNCHANGED <<assignments, states, stale, batches, session_at, session_prepares,
                 session_signatures, session_unknown_ids, session_sent, session_error,
                 commits>>
  /\ UNCHANGED <<frameVars, latticeVars, validatorVars, manualVars, disclosureVars, signupVars>>

NextPrepare ==
  \/ Shutdown
  \/ \E s \in Sessions : Accept(s)
  \/ \E s \in Sessions : Disconnect(s)
  \/ \E s \in Sessions :
       \E request \in PrepareRequests(session_at[s], session_prepares[s], session_unknown_ids[s]) :
         ReceivePrepares(s, request)
  \/ \E s \in Sessions :
       \E request \in PrepareRequests(session_at[s], session_prepares[s], session_unknown_ids[s]) :
         ReceiveBatch(s, request)
  \/ \E s \in Sessions :
       \E request \in PrepareRequests(session_at[s], session_prepares[s], session_unknown_ids[s]) :
         ReceiveAssignments(s, request)
  \/ \E s \in Sessions :
       \E request \in PrepareRequests(session_at[s], session_prepares[s], session_unknown_ids[s]) :
         ReceiveWitness(s, request)

\* run_prepare (lines 43-55) without a bound on the sessions in service: every
\* accepted session is spawned at once.
AcceptConcurrent(s) ==
  /\ session_at[s] = "accept"
  /\ session_at' = [session_at EXCEPT ![s] = "receive_prepares"]
  /\ UNCHANGED <<assignments, states, stale, batches, session_prepares,
                 session_signatures, session_unknown_ids, session_sent, session_error,
                 commits>>
  /\ UNCHANGED <<frameVars, latticeVars, validatorVars, manualVars, disclosureVars, voidableVars, signupVars>>

\* The witness reaches session s on the fast path while every session in
\* service holds its prepares: the sessions run side by side.
ReceiveWitnessConcurrent(s, request) ==
  /\ \A t \in Sessions : session_at[t] \in {"receive_batch", "done"}
  /\ ReceiveBatch(s, request)

\* Sessions served side by side on the fast path.
NextConcurrent ==
  \/ \E s \in Sessions : AcceptConcurrent(s)
  \/ \E s \in Sessions : \E request \in PreparesRequests : ReceivePrepares(s, request)
  \/ \E s \in Sessions : \E request \in WitnessRequests(session_prepares[s]) :
       ReceiveWitnessConcurrent(s, request)

(***************************************************************************)
(* PART III.  lattice/lattice_agreement.rs, lattice/lattice_runner         *)
(***************************************************************************)
Replicas == 1..NumReplicas

\* The replicas on which LatticeAgreement::propose is called; replica r
\* proposes the element r, so that the proposals are disjoint singletons.
Proposers == 1..MaxProposers

Elements == Proposers

\* View::quorum and View::plurality for a view of n members.
quorum(n) == ((2 * n + 2) \div 3) + 1

plurality(n) == (n \div 3) + 1

\* Decision::identifier / elements.identifier(): the hash of an element set
\* commits to the set; two sets have the same identifier only if they are equal.
identifier(elements) == [hash |-> elements]

\* BTreeSet iteration: the elements in hash order, the hash of element e being
\* ordered as e is.
RECURSIVE in_hash_order(_)
in_hash_order(elements) ==
  IF elements = {} THEN <<>>
  ELSE LET least == CHOOSE e \in elements : \A other \in elements : e <= other
       IN  <<least>> \o in_hash_order(elements \ {least})

\* keychain.multisign(&decision): the signature of a member on the Decision of
\* the elements that `statement` identifies.
multisign(signer, statement) == [signer |-> signer, statement |-> statement]

\* The members whose signatures an aggregator holds.
signers_of(signatures) == {signature.signer : signature \in signatures}

NoCertification == [tag |-> "None"]

NoDecision == [tag |-> "None"]

\* The members that do not run the code: fewer than a third of the view.
Byzantine == {NumReplicas}

Correct == Replicas \ Byzantine

InitLattice ==
  /\ state = [r \in Replicas |-> "Disclosing"]
  /\ proposal_inlet = [r \in Replicas |-> TRUE]
  /\ proposal_outlet = [r \in Replicas |-> 0]
  /\ proposed = [r \in Replicas |-> FALSE]
  /\ result_outlet = [r \in Replicas |-> "empty"]
  /\ database_disclosed = [r \in Replicas |-> FALSE]
  /\ disclosure_sends = [r \in Replicas |-> <<>>]
  /\ delivered = [r \in Replicas |-> {}]
  /\ safe_set = [r \in Replicas |-> {}]
  /\ proposed_set = [r \in Replicas |-> {}]
  /\ accepted_set = [r \in Replicas |-> {}]
  /\ certification = [r \in Replicas |-> NoCertification]
  /\ decision_inlet = [r \in Replicas |-> TRUE]
  /\ decision_outlet = [r \in Replicas |-> NoDecision]
  /\ requests = {}
  /\ responses = {}
  /\ decide_runs = [r \in Replicas |-> 0]
  /\ panicked = [r \in Replicas |-> FALSE]
  /\ byzantine_messages = 0

\* LatticeRunner::disclosed
disclosed(r) == database_disclosed[r]

\* LatticeAgreement::propose (lines 104-112) on replica r: the proposal inlet is
\* taken (a second call panics on the expect) and the element is sent to the
\* runner with the inlet of the result.
propose(r) ==
  /\ r \in Correct \cap Proposers
  /\ proposal_inlet[r]
  /\ proposal_inlet' = [proposal_inlet EXCEPT ![r] = FALSE]
  /\ proposal_outlet' = [proposal_outlet EXCEPT ![r] = r]
  /\ UNCHANGED <<state, proposed, result_outlet, database_disclosed,
                 disclosure_sends, delivered, safe_set, proposed_set, accepted_set,
                 certification, decision_inlet, decision_outlet, requests, responses,
                 decide_runs, panicked, byzantine_messages>>
  /\ UNCHANGED <<frameVars, prepareVars, validatorVars, manualVars, disclosureVars, signupVars>>

\* What LatticeAgreement::propose returns (lines 117-121) once the runner has
\* answered on the result channel.
propose_returns(r) ==
  IF result_outlet[r] = "true" THEN "Ok"
  ELSE IF result_outlet[r] = "false" THEN "ProposalSuperseded"
  ELSE "pending"

\* disclose that does not hold the replica's own element safe.
disclose_without_safe(r, proposal) ==
  /\ database_disclosed' = [database_disclosed EXCEPT ![r] = TRUE]
  /\ UNCHANGED safe_set
  /\ disclosure_sends' = [disclosure_sends EXCEPT ![r] = Append(@, proposal)]

\* LatticeRunner::disclose: the replica has disclosed, its element is safe and
\* the DisclosureSend is broadcast.
disclose(r, proposal) ==
  /\ database_disclosed' = [database_disclosed EXCEPT ![r] = TRUE]
  /\ safe_set' = [safe_set EXCEPT ![r] = @ \cup {proposal}]
  /\ disclosure_sends' = [disclosure_sends EXCEPT ![r] = Append(@, proposal)]

\* handle_proposal with the two answers swapped.
handle_proposal_swapped(r, proposal) ==
  IF ~disclosed(r)
  THEN /\ disclose(r, proposal)
       /\ result_outlet' = [result_outlet EXCEPT ![r] = "false"]
  ELSE /\ result_outlet' = [result_outlet EXCEPT ![r] = "true"]
       /\ UNCHANGED <<database_disclosed, safe_set, disclosure_sends>>

\* LatticeRunner::handle_proposal (mod.rs lines 214-221)
handle_proposal(r, proposal) ==
  IF ~disclosed(r)
  THEN /\ disclose(r, proposal)
       /\ result_outlet' = [result_outlet EXCEPT ![r] = "true"]
  ELSE /\ result_outlet' = [result_outlet EXCEPT ![r] = "false"]
       /\ UNCHANGED <<database_disclosed, safe_set, disclosure_sends>>

\* The proposal branch of the select of LatticeRunner::run (lines 202-205).
run_proposal(r) ==
  /\ r \in Correct
  /\ ~panicked[r]
  /\ proposal_outlet[r] # 0
  /\ ~proposed[r]
  /\ proposed' = [proposed EXCEPT ![r] = TRUE]
  /\ proposal_outlet' = [proposal_outlet EXCEPT ![r] = 0]
  /\ handle_proposal(r, proposal_outlet[r])
  /\ UNCHANGED <<state, proposal_inlet, delivered, proposed_set, accepted_set,
                 certification, decision_inlet, decision_outlet, requests, responses,
                 decide_runs, panicked, byzantine_messages>>
  /\ UNCHANGED <<frameVars, prepareVars, validatorVars, manualVars, disclosureVars, signupVars>>

\* The CertificationRequest broadcast of certify, one copy per member that
\* handles messages as the code does.
broadcast_request(r, elements) ==
  {[source |-> r, destination |-> q, elements |-> elements] : q \in Correct}

\* The certification database of r is dropped, and its fuse with it: the pushes
\* of the request broadcast it made stop.
cancel(r, messages) == {message \in messages : message.source # r}

\* The responses to a certification that r has replaced or decided: r drops
\* them on receipt, whatever they say, so they are taken off the network when r
\* leaves the certification.
drop(r, messages) == {message \in messages : message.destination # r}

\* certify that keeps the signatures aggregated for the decision before.
certify_keeping_aggregator(r, elements) ==
  /\ certification' =
       [certification EXCEPT
          ![r] = [tag |-> "Some", identifier |-> identifier(elements),
                  elements |-> elements,
                  aggregator |-> IF certification[r].tag = "Some"
                                 THEN certification[r].aggregator ELSE {}]]
  /\ requests' = cancel(r, requests) \cup broadcast_request(r, elements)
  /\ responses' = drop(r, responses)

\* LatticeRunner::certify (certification.rs lines 21-51): a new certification
\* database for the decision on `elements`, which replaces the one before, and
\* the request broadcast.
certify(r, elements) ==
  /\ certification' =
       [certification EXCEPT
          ![r] = [tag |-> "Some", identifier |-> identifier(elements),
                  elements |-> elements, aggregator |-> {}]]
  /\ requests' = cancel(r, requests) \cup broadcast_request(r, elements)
  /\ responses' = drop(r, responses)

\* The reliable broadcast of the disclosure of `origin` delivers at r: the
\* element is safe, the disclosures are counted and, still Disclosing with a
\* plurality of origins delivered, the runner enters Proposing and certifies
\* its safe set.
deliver_disclosure(r, origin) ==
  /\ r \in Correct
  /\ ~panicked[r]
  /\ origin \notin delivered[r]
  /\ disclosure_sends[origin] # <<>>
  /\ LET element == disclosure_sends[origin][1]
         safe == safe_set[r] \cup {element}
     IN  /\ delivered' = [delivered EXCEPT ![r] = @ \cup {origin}]
         /\ safe_set' = [safe_set EXCEPT ![r] = safe]
         /\ IF state[r] = "Disclosing"
               /\ Cardinality(delivered[r] \cup {origin}) >= plurality(NumReplicas)
            THEN /\ state' = [state EXCEPT ![r] = "Proposing"]
                 /\ proposed_set' = [proposed_set EXCEPT ![r] = safe]
                 /\ certify(r, safe)
            ELSE UNCHANGED <<state, proposed_set, certification, requests, responses>>
  /\ UNCHANGED <<proposal_inlet, proposal_outlet, proposed, result_outlet,
                 database_disclosed, disclosure_sends, accepted_set, decision_inlet,
                 decision_outlet, decide_runs, panicked, byzantine_messages>>
  /\ UNCHANGED <<frameVars, prepareVars, validatorVars, manualVars, disclosureVars, signupVars>>

\* decide that finalizes an aggregator without signers.
decide_unsigned(r, signatures) ==
  /\ decide_runs' = [decide_runs EXCEPT ![r] = @ + 1]
  /\ state' = [state EXCEPT ![r] = "Decided"]
  /\ requests' = cancel(r, requests)
  /\ responses' = drop(r, responses)
  /\ IF certification[r].tag = "None" \/ ~decision_inlet[r]
        \/ ~(certification[r].elements \subseteq safe_set[r])
     THEN /\ panicked' = [panicked EXCEPT ![r] = TRUE]
          /\ certification' = [certification EXCEPT ![r] = NoCertification]
          /\ UNCHANGED <<decision_inlet, decision_outlet>>
     ELSE /\ certification' = [certification EXCEPT ![r] = NoCertification]
          /\ decision_inlet' = [decision_inlet EXCEPT ![r] = FALSE]
          /\ decision_outlet' =
               [decision_outlet EXCEPT
                  ![r] = [tag |-> "Some",
                          elements |-> in_hash_order(certification[r].elements),
                          certificate |-> [statement |-> certification[r].identifier,
                                           signers |-> {},
                                           signatures |-> {}]]]
          /\ UNCHANGED panicked

\* decide that leaves the state as it is.
decide_without_state(r, signatures) ==
  /\ decide_runs' = [decide_runs EXCEPT ![r] = @ + 1]
  /\ UNCHANGED state
  /\ requests' = cancel(r, requests)
  /\ responses' = drop(r, responses)
  /\ IF certification[r].tag = "None" \/ ~decision_inlet[r]
        \/ ~(certification[r].elements \subseteq safe_set[r])
     THEN /\ panicked' = [panicked EXCEPT ![r] = TRUE]
          /\ certification' = [certification EXCEPT ![r] = NoCertification]
          /\ UNCHANGED <<decision_inlet, decision_outlet>>
     ELSE /\ certification' = [certification EXCEPT ![r] = NoCertification]
          /\ decision_inlet' = [decision_inlet EXCEPT ![r] = FALSE]
          /\ decision_outlet' =
               [decision_outlet EXCEPT
                  ![r] = [tag |-> "Some",
                          elements |-> in_hash_order(certification[r].elements),
                          certificate |-> [statement |-> certification[r].identifier,
                                           signers |-> signers_of(signatures),
                                           signatures |-> signatures]]]
          /\ UNCHANGED panicked

\* LatticeRunner::decide (certification.rs lines 53-76): the state is Decided,
\* the certification database is taken (unwrap), the aggregator finalized at
\* quorum, the elements looked up (unwrap) and sent on the decision inlet, which
\* is taken (unwrap).  `signatures` are the aggregator's at the time of the
\* call.
decide(r, signatures) ==
  /\ decide_runs' = [decide_runs EXCEPT ![r] = @ + 1]
  /\ state' = [state EXCEPT ![r] = "Decided"]
  /\ requests' = cancel(r, requests)
  /\ responses' = drop(r, responses)
  /\ IF certification[r].tag = "None" \/ ~decision_inlet[r]
        \/ ~(certification[r].elements \subseteq safe_set[r])
     THEN /\ panicked' = [panicked EXCEPT ![r] = TRUE]
          /\ certification' = [certification EXCEPT ![r] = NoCertification]
          /\ UNCHANGED <<decision_inlet, decision_outlet>>
     ELSE /\ certification' = [certification EXCEPT ![r] = NoCertification]
          /\ decision_inlet' = [decision_inlet EXCEPT ![r] = FALSE]
          /\ decision_outlet' =
               [decision_outlet EXCEPT
                  ![r] = [tag |-> "Some",
                          elements |-> in_hash_order(certification[r].elements),
                          certificate |-> [statement |-> certification[r].identifier,
                                           signers |-> signers_of(signatures),
                                           signatures |-> signatures]]]
          /\ UNCHANGED panicked

\* process_certification_confirmation: a confirmation of the identifier being
\* certified adds its signer to the aggregator; at a quorum of signers the
\* runner decides.  A confirmation of anything else is dropped.  `pending` is
\* the network without the message being processed.
process_certification_confirmation(p, source, confirmed, pending) ==
  IF /\ ~panicked[p]
     /\ state[p] = "Proposing"
     /\ certification[p].tag = "Some"
     /\ certification[p].identifier = confirmed
  THEN LET signatures == certification[p].aggregator \cup {multisign(source, confirmed)} IN
       IF Cardinality(signers_of(signatures)) >= quorum(NumReplicas)
       THEN decide(p, signatures)
       ELSE /\ certification' = [certification EXCEPT ![p].aggregator = signatures]
            /\ requests' = pending
            /\ UNCHANGED <<state, decision_inlet, decision_outlet, decide_runs, panicked,
                           responses>>
  ELSE /\ requests' = pending
       /\ UNCHANGED <<state, certification, decision_inlet, decision_outlet, decide_runs,
                      panicked, responses>>

\* validate_certification_request that lets any element through.
validate_certification_request_without_safe(q, elements) ==
  elements # {}

\* validate_certification_request (certification_request.rs lines 22-36)
validate_certification_request(q, elements) ==
  /\ elements # {}
  /\ elements \subseteq safe_set[q]

\* The response of process_certification_request with all that q accepted as
\* the differences of an update.
certification_response_all_accepted(q, source, elements) ==
  IF accepted_set[q] \subseteq elements
  THEN [tag |-> "CertificationConfirmation", source |-> q, destination |-> source,
        identifier |-> identifier(elements), differences |-> {}]
  ELSE [tag |-> "CertificationUpdate", source |-> q, destination |-> source,
        identifier |-> identifier(elements), differences |-> accepted_set[q]]

\* The response of process_certification_request (lines 40-85) to `source`.
certification_response(q, source, elements) ==
  IF accepted_set[q] \subseteq elements
  THEN [tag |-> "CertificationConfirmation", source |-> q, destination |-> source,
        identifier |-> identifier(elements), differences |-> {}]
  ELSE [tag |-> "CertificationUpdate", source |-> q, destination |-> source,
        identifier |-> identifier(elements), differences |-> accepted_set[q] \ elements]

\* The push of a response to a correct proposer.  A confirmation reaches the
\* proposer in the same step: with every member's signature needed for a
\* quorum, the proposer cannot leave the certification before it has the
\* confirmation other than by certifying anew, which empties the aggregator as
\* dropping the confirmation would.  An update stays on the network until the
\* proposer handles it.
send_response(response, pending) ==
  IF response.tag = "CertificationConfirmation"
  THEN process_certification_confirmation(response.destination, response.source,
                                          response.identifier, pending)
  ELSE /\ responses' = responses \cup {response}
       /\ requests' = pending
       /\ UNCHANGED <<state, certification, decision_inlet, decision_outlet, decide_runs,
                      panicked>>

\* process_certification_request that keeps the elements of the request as the
\* accepted set, without what was accepted before.
process_certification_request_replacing_accepted(q, source, elements, pending) ==
  /\ IF source \in Correct
     THEN send_response(certification_response(q, source, elements), pending)
     ELSE /\ requests' = pending
          /\ UNCHANGED <<state, certification, decision_inlet, decision_outlet,
                         decide_runs, panicked, responses>>
  /\ accepted_set' = [accepted_set EXCEPT ![q] = elements]

\* process_certification_request that does not accept the elements.
process_certification_request_without_accept(q, source, elements, pending) ==
  /\ IF source \in Correct
     THEN send_response(certification_response(q, source, elements), pending)
     ELSE /\ requests' = pending
          /\ UNCHANGED <<state, certification, decision_inlet, decision_outlet,
                         decide_runs, panicked, responses>>
  /\ UNCHANGED accepted_set

\* process_certification_request (certification_request.rs lines 38-97): the
\* response is a confirmation if the elements hold all that q accepted, an
\* update with what they miss if not; the elements are accepted either way.
\* `pending` is the network without the request being processed.
process_certification_request(q, source, elements, pending) ==
  /\ IF source \in Correct
     THEN send_response(certification_response(q, source, elements), pending)
     ELSE /\ requests' = pending
          /\ UNCHANGED <<state, certification, decision_inlet, decision_outlet,
                         decide_runs, panicked, responses>>
  /\ accepted_set' = [accepted_set EXCEPT ![q] = @ \cup elements]

\* The members whose request broadcasts the network delivers; the requests of
\* the others stay in flight.
Certifiers == 1..MaxCertifiers

\* handle_message (mod.rs lines 223-239) on a CertificationRequest of a correct
\* member: a request that does not validate is not acknowledged, and is pushed
\* again later.
handle_certification_request(q, request) ==
  /\ request \in requests
  /\ request.destination = q
  /\ request.source \in Certifiers
  /\ ~panicked[q]
  /\ validate_certification_request(q, request.elements)
  /\ process_certification_request(q, request.source, request.elements,
                                   requests \ {request})
  /\ UNCHANGED <<proposal_inlet, proposal_outlet, proposed, result_outlet,
                 database_disclosed, disclosure_sends, delivered, safe_set, proposed_set,
                 byzantine_messages>>
  /\ UNCHANGED <<frameVars, prepareVars, validatorVars, manualVars, disclosureVars, signupVars>>

\* handle_message on a CertificationRequest a byzantine member made up.
handle_byzantine_request(q, b, elements) ==
  /\ q \in Correct
  /\ b \in Byzantine
  /\ byzantine_messages < MaxByzantineMessages
  /\ ~panicked[q]
  /\ validate_certification_request(q, elements)
  /\ ~(elements \subseteq accepted_set[q])
  /\ process_certification_request(q, b, elements, requests)
  /\ byzantine_messages' = byzantine_messages + 1
  /\ UNCHANGED <<proposal_inlet, proposal_outlet, proposed, result_outlet,
                 database_disclosed, disclosure_sends, delivered, safe_set, proposed_set>>
  /\ UNCHANGED <<frameVars, prepareVars, validatorVars, manualVars, disclosureVars, signupVars>>

\* handle_message on a made-up CertificationRequest that does not validate:
\* validate_message fails and handle_message returns InvalidMessage before
\* process_message is reached; the acknowledger is dropped unused.
reject_certification_request(q, b, elements) ==
  /\ q \in Correct
  /\ b \in Byzantine
  /\ byzantine_messages < MaxByzantineMessages
  /\ ~panicked[q]
  /\ ~validate_certification_request(q, elements)
  /\ byzantine_messages' = byzantine_messages + 1
  /\ UNCHANGED <<state, proposal_inlet, proposal_outlet, proposed, result_outlet,
                 database_disclosed, disclosure_sends, delivered, safe_set, proposed_set,
                 accepted_set, certification, decision_inlet, decision_outlet,
                 requests, responses, decide_runs, panicked>>
  /\ UNCHANGED <<frameVars, prepareVars, validatorVars, manualVars, disclosureVars, signupVars>>

\* handle_message on the confirmation a byzantine member signs for whatever p
\* is certifying.  The signature is counted when it completes the quorum: the
\* aggregator counts a signer once, whenever its confirmation comes.
handle_byzantine_confirmation(p, b) ==
  /\ p \in Correct
  /\ b \in Byzantine
  /\ ~panicked[p]
  /\ state[p] = "Proposing"
  /\ certification[p].tag = "Some"
  /\ b \notin signers_of(certification[p].aggregator)
  /\ Cardinality(signers_of(certification[p].aggregator) \cup {b}) >= quorum(NumReplicas)
  /\ process_certification_confirmation(p, b, certification[p].identifier, requests)
  /\ UNCHANGED <<proposal_inlet, proposal_outlet, proposed, result_outlet,
                 database_disclosed, disclosure_sends, delivered, safe_set, proposed_set,
                 accepted_set, byzantine_messages>>
  /\ UNCHANGED <<frameVars, prepareVars, validatorVars, manualVars, disclosureVars, signupVars>>

\* process_certification_update that certifies the differences alone.
process_certification_update_differences_only(p, update_identifier, differences, pending) ==
  IF /\ state[p] = "Proposing"
     /\ certification[p].tag = "Some"
     /\ certification[p].identifier = update_identifier
     /\ ~(differences \subseteq proposed_set[p])
  THEN /\ proposed_set' = [proposed_set EXCEPT ![p] = differences]
       /\ certify(p, differences)
  ELSE /\ responses' = pending
       /\ UNCHANGED <<proposed_set, certification, requests>>

\* process_certification_update: an update on the identifier being certified
\* makes the proposer certify the union of its proposed set and the
\* differences.  Any other update is dropped.
process_certification_update(p, update_identifier, differences, pending) ==
  IF /\ state[p] = "Proposing"
     /\ certification[p].tag = "Some"
     /\ certification[p].identifier = update_identifier
     /\ ~(differences \subseteq proposed_set[p])
  THEN /\ proposed_set' = [proposed_set EXCEPT ![p] = @ \cup differences]
       /\ certify(p, proposed_set[p] \cup differences)
  ELSE /\ responses' = pending
       /\ UNCHANGED <<proposed_set, certification, requests>>

\* The differences of an update validate if the proposer holds them safe.
validate_certification_update(p, differences) ==
  /\ differences # {}
  /\ differences \subseteq safe_set[p]

\* handle_message on a CertificationUpdate of a correct member: an update that
\* does not validate is not acknowledged, and is pushed again later.
handle_certification_update(p, response) ==
  /\ response \in responses
  /\ response.destination = p
  /\ response.tag = "CertificationUpdate"
  /\ ~panicked[p]
  /\ validate_certification_update(p, response.differences)
  /\ process_certification_update(p, response.identifier, response.differences,
                                  responses \ {response})
  /\ UNCHANGED <<state, proposal_inlet, proposal_outlet, proposed, result_outlet,
                 database_disclosed, disclosure_sends, delivered, safe_set, accepted_set,
                 decision_inlet, decision_outlet, decide_runs, panicked,
                 byzantine_messages>>
  /\ UNCHANGED <<frameVars, prepareVars, validatorVars, manualVars, disclosureVars, signupVars>>

\* handle_message on an update a byzantine member made up for what p is
\* certifying.
handle_byzantine_update(p, b, differences) ==
  /\ p \in Correct
  /\ b \in Byzantine
  /\ byzantine_messages < MaxByzantineMessages
  /\ ~panicked[p]
  /\ state[p] = "Proposing"
  /\ certification[p].tag = "Some"
  /\ validate_certification_update(p, differences)
  /\ ~(differences \subseteq proposed_set[p])
  /\ process_certification_update(p, certification[p].identifier, differences, responses)
  /\ byzantine_messages' = byzantine_messages + 1
  /\ UNCHANGED <<state, proposal_inlet, proposal_outlet, proposed, result_outlet,
                 database_disclosed, disclosure_sends, delivered, safe_set, accepted_set,
                 decision_inlet, decision_outlet, decide_runs, panicked>>
  /\ UNCHANGED <<frameVars, prepareVars, validatorVars, manualVars, disclosureVars, signupVars>>

NextLattice ==
  \/ \E r \in Replicas : propose(r)
  \/ \E r \in Replicas : run_proposal(r)
  \/ \E r \in Replicas, origin \in Replicas : deliver_disclosure(r, origin)
  \/ \E q \in Replicas, request \in requests : handle_certification_request(q, request)
  \/ \E q \in Replicas, b \in Replicas, elements \in SUBSET Elements :
       handle_byzantine_request(q, b, elements)
  \/ \E p \in Replicas, b \in Replicas : handle_byzantine_confirmation(p, b)
  \/ \E p \in Replicas, response \in responses : handle_certification_update(p, response)
  \/ \E p \in Replicas, b \in Replicas, differences \in SUBSET Elements :
       handle_byzantine_update(p, b, differences)

(***************************************************************************)
(* PART IV.  prepare/equivocation.rs, prepare/extract.rs                   *)
(***************************************************************************)
\* The identifiers of views an Extract may refer to, and those that
\* discovery.view() knows.
ViewIdentifiers == {"v1", "v2"}

KnownViews == {"v1"}

\* Client::view
discovery_view(view) ==
  IF view \in KnownViews THEN [tag |-> "Some", view |-> view] ELSE [tag |-> "None"]

\* The batches whose roots the Extracts carry: one prepare each.
ExtractBatches == {<<prepare>> : prepare \in Prepare}

\* prepare::Extract: the inclusion proof is the position proved (0-based), as
\* WitnessedBatch::extract builds it; the prepare is any, also one that the
\* root does not hold there.
Extracts ==
  [view : ViewIdentifiers,
   root : {root(vector) : vector \in ExtractBatches},
   witness : Witnesses,
   inclusion : {0},
   prepare : Prepare]

\* Extract::id / Extract::commitment (extract.rs lines 52-58)
extract_id(ext) == ext.prepare.id

extract_commitment(ext) == ext.prepare.commitment

\* Proof::verify(root, &prepare): the vector under the root holds the prepare
\* at the position proved.
inclusion_verify(inclusion, batch_root, prepare) ==
  /\ inclusion + 1 \in DOMAIN batch_root.merkle
  /\ batch_root.merkle[inclusion + 1] = prepare

\* Extract::validate that takes a verifying witness for an invalid one.
extract_validate_witness_negated(ext) ==
  IF discovery_view(ext.view).tag = "None" THEN "ViewUnknown"
  ELSE IF verify_plurality(ext.witness) THEN "WitnessInvalid"
  ELSE IF ~inclusion_verify(ext.inclusion, ext.root, ext.prepare)
       THEN "InclusionProofInvalid"
  ELSE "Ok"

\* Extract::validate (extract.rs lines 60-77)
extract_validate(ext) ==
  IF discovery_view(ext.view).tag = "None" THEN "ViewUnknown"
  ELSE IF ~verify_plurality(ext.witness) THEN "WitnessInvalid"
  ELSE IF ~inclusion_verify(ext.inclusion, ext.root, ext.prepare)
       THEN "InclusionProofInvalid"
  ELSE "Ok"

\* Equivocation::validate that compares the commitments before the ids.
equivocation_validate_commitment_first(pair) ==
  IF extract_commitment(pair[1]) = extract_commitment(pair[2]) THEN "ConsistentExtracts"
  ELSE IF extract_id(pair[1]) # extract_id(pair[2]) THEN "IdMismatch"
  ELSE IF \E k \in 1..2 : extract_validate(pair[k]) # "Ok" THEN "InvalidExtract"
  ELSE "Ok"

\* Equivocation::validate that does not compare the commitments.
equivocation_validate_without_commitments(pair) ==
  IF extract_id(pair[1]) # extract_id(pair[2]) THEN "IdMismatch"
  ELSE IF \E k \in 1..2 : extract_validate(pair[k]) # "Ok" THEN "InvalidExtract"
  ELSE "Ok"

\* Equivocation::validate (equivocation.rs lines 30-46)
equivocation_validate(pair) ==
  IF extract_id(pair[1]) # extract_id(pair[2]) THEN "IdMismatch"
  ELSE IF extract_commitment(pair[1]) = extract_commitment(pair[2]) THEN "ConsistentExtracts"
  ELSE IF \E k \in 1..2 : extract_validate(pair[k]) # "Ok" THEN "InvalidExtract"
  ELSE "Ok"

NoEquivocation == [tag |-> "None"]

InitEquivocation ==
  /\ equivocation = NoEquivocation
  /\ validation = "none"

\* Equivocation::new(lhe, rhe) (lines 21-23), on any two extracts.
EquivocationNew ==
  /\ equivocation = NoEquivocation
  /\ \E lhe \in Extracts, rhe \in Extracts :
       equivocation' = [tag |-> "Some", extracts |-> <<lhe, rhe>>]
  /\ UNCHANGED <<validation, registry, deserialized>>
  /\ UNCHANGED <<frameVars, prepareVars, latticeVars, manualVars, disclosureVars, signupVars>>

\* A call of Equivocation::validate on the equivocation.
EquivocationValidate ==
  /\ equivocation.tag = "Some"
  /\ validation = "none"
  /\ validation' = equivocation_validate(equivocation.extracts)
  /\ UNCHANGED <<equivocation, registry, deserialized>>
  /\ UNCHANGED <<frameVars, prepareVars, latticeVars, manualVars, disclosureVars, signupVars>>

NextEquivocation ==
  \/ EquivocationNew
  \/ EquivocationValidate

(***************************************************************************)
(* PART V.  view/install.rs                                                *)
(***************************************************************************)
\* The identifiers of the views an install may name as its source; the genesis
\* view is registered from the start.
MaxViews == 5

InstallViews == 1..MaxViews

GenesisView == 1

\* The serialized installs a replica may receive: the source of the payload,
\* whether the payload holds increments, whether the certificate is one that
\* a plurality of the source view signed on the payload.
InstallBytes ==
  [source : InstallViews, increments : BOOLEAN, certificate : Witnesses]

\* View::get: the view registered under the identifier, if any.
View_get(views, source) ==
  IF source \in views THEN [tag |-> "Some", view |-> source] ELSE [tag |-> "None"]

\* Install::check that verifies the certificate before it looks the source up.
Install_check_certificate_first(views, install, debug_assertions) ==
  IF ~verify_plurality(install.certificate) THEN "CertificateInvalid"
  ELSE IF View_get(views, install.source).tag = "None" THEN "SourceUnknown"
  ELSE IF debug_assertions /\ ~install.increments THEN "panic"
  ELSE "Ok"

\* Install::check (install.rs lines 41-58); the panic on an install without
\* increments is compiled in under debug_assertions only.
Install_check(views, install, debug_assertions) ==
  IF View_get(views, install.source).tag = "None" THEN "SourceUnknown"
  ELSE IF ~verify_plurality(install.certificate) THEN "CertificateInvalid"
  ELSE IF debug_assertions /\ ~install.increments THEN "panic"
  ELSE "Ok"

\* <Install as Deserialize>::deserialize (lines 70-79) on well-formed bytes:
\* the derived deserialization yields the install, check decides.
Install_deserialize(views, bytes, debug_assertions) ==
  LET checked == Install_check(views, bytes, debug_assertions) IN
  IF checked = "Ok" THEN [tag |-> "Ok", install |-> bytes]
  ELSE IF checked = "panic" THEN [tag |-> "Panic"]
  ELSE [tag |-> "Err", error |-> checked]

InitInstall ==
  /\ registry = {GenesisView}
  /\ deserialized = [tag |-> "None"]

\* A view is registered.
RegisterView(view) ==
  /\ view \notin registry
  /\ registry' = registry \cup {view}
  /\ UNCHANGED <<equivocation, validation, deserialized>>
  /\ UNCHANGED <<frameVars, prepareVars, latticeVars, manualVars, disclosureVars, signupVars>>

\* The replica deserializes an install it received, in a build with or without
\* debug assertions.
DeserializeInstall(bytes, debug_assertions) ==
  /\ deserialized' = Install_deserialize(registry, bytes, debug_assertions)
  /\ UNCHANGED <<equivocation, validation, registry>>
  /\ UNCHANGED <<frameVars, prepareVars, latticeVars, manualVars, disclosureVars, signupVars>>

NextInstall ==
  \/ \E view \in InstallViews : RegisterView(view)
  \/ \E bytes \in InstallBytes, debug_assertions \in BOOLEAN :
       DeserializeInstall(bytes, debug_assertions)

(***************************************************************************)
(* Claims on the prepare pipeline.                                         *)
(***************************************************************************)
\* This step is a pass through the locked section of serve_prepare.
Committing == Len(commits') = Len(commits) + 1

\* The pass of this step and the one before it.
ThisCommit == commits'[Len(commits')]

LastCommit == commits[Len(commits)]

\* The positions of `vector` that hold `id`.
PositionsOf(vector, id) == {k \in 1..Len(vector) : vector[k].id = id}

\* The prepare at position k of `vector` has the height of the Consistent state
\* recorded for its id and another commitment.
Conflicts(vector, k) ==
  /\ states[vector[k].id].tag = "Consistent"
  /\ states[vector[k].id].height = vector[k].height
  /\ states[vector[k].id].commitment # vector[k].commitment

\* C5: when the only prepare of a witnessed batch for an id has the height of
\* the id's recorded Consistent state and a different commitment (and no other
\* prepare of the batch conflicts or is Equivocated), processing the batch
\* leaves the id Equivocated, by an extract of the new prepare and one of the
\* recorded prepare, and the batch's CommitShard holds exactly that exception.
C5_SecondPrepareEquivocates ==
  [][Committing =>
       LET vector == ThisCommit.batch.prepares IN
       \A k \in 1..Len(vector) :
         (/\ Conflicts(vector, k)
          /\ PositionsOf(vector, vector[k].id) = {k}
          /\ \A j \in 1..Len(vector) \ {k} :
               ~Conflicts(vector, j) /\ states[vector[j].id].tag # "Equivocated")
         => /\ states'[vector[k].id].tag = "Equivocated"
            /\ states'[vector[k].id].equivocation[1].prepare = vector[k]
            /\ states'[vector[k].id].equivocation[2].prepare.commitment
                 = states[vector[k].id].commitment
            /\ ThisCommit.shard.tag = "CommitShard"
            /\ ThisCommit.shard.exceptions = <<states'[vector[k].id].equivocation>>]_vars

\* C6: a witnessed batch (its witness a plurality certificate) processed twice
\* in a row ends with the same CommitShard both times, root and exceptions, and
\* the second pass changes no state: no id becomes Equivocated, nothing is
\* marked stale.
C6_SameBatchTwice ==
  [][(/\ Committing
      /\ Len(commits) >= 1
      /\ ThisCommit.batch = LastCommit.batch
      /\ verify_plurality(LastCommit.batch.witness)
      /\ LastCommit.shard.tag = "CommitShard")
     => /\ ThisCommit.shard = LastCommit.shard
        /\ \A id \in Ids : states'[id].tag = "Equivocated" => states[id].tag = "Equivocated"
        /\ states' = states
        /\ stale' = stale]_vars

\* C6 witness: a two-prepare witnessed batch was processed twice in a row and
\* both passes ended with a commit shard.
C6_Witness ==
  /\ Len(commits) = 2
  /\ commits[1].batch = commits[2].batch
  /\ verify_plurality(commits[1].batch.witness)
  /\ Len(commits[1].batch.prepares) = 2
  /\ commits[1].shard.tag = "CommitShard"
  /\ commits[2].shard.tag = "CommitShard"

\* C7: an id without recorded state that a processed witnessed batch holds one
\* prepare for, at position k - 1, is recorded Consistent with the prepare's
\* height and commitment, the handle Batched{root, k - 1} and stale = true, and
\* is in the stale set; a batch of first-time ids only ends with a CommitShard
\* without exceptions.
C7_FirstTimeIdRecorded ==
  [][Committing =>
       LET vector == ThisCommit.batch.prepares
           first_time(k) == /\ states[vector[k].id].tag = "None"
                            /\ PositionsOf(vector, vector[k].id) = {k}
       IN  /\ \A k \in 1..Len(vector) :
                first_time(k)
                => /\ states'[vector[k].id]
                        = Consistent(vector[k].height, vector[k].commitment,
                                     Batched(root(vector), k - 1), TRUE)
                   /\ vector[k].id \in stale'
           /\ (\A k \in 1..Len(vector) : first_time(k))
                => /\ ThisCommit.shard.tag = "CommitShard"
                   /\ ThisCommit.shard.exceptions = <<>>]_vars

(***************************************************************************)
(* PART VI.  lattice/lattice_runner: the reliable broadcast of disclosures  *)
(***************************************************************************)
\* The runner whose DisclosureDatabase is followed.
Local == 1

\* The disclosures an origin may sign: an origin that signs more than one
\* equivocates.  A disclosure holds one element; the identifier stands for the
\* hash of the disclosure and for the hash of its element.
MaxDisclosures == 2

DisclosureIds == 1..MaxDisclosures

\* The origins whose broadcasts reach the runner: the byzantine members, which
\* may send any disclosure to anyone.
Origins == Byzantine

InitDisclosure ==
  /\ disclosures_received = {}
  /\ echoes_sent = {}
  /\ echoes_collected = {}
  /\ echo_support = [key \in Origins \X DisclosureIds |-> 0]
  /\ ready_sent = {}
  /\ ready_collected = {}
  /\ ready_support = [key \in Origins \X DisclosureIds |-> 0]
  /\ echo_broadcasts = <<>>
  /\ ready_broadcasts = <<>>
  /\ peer_ready = [peer \in Correct \ {Local} |-> {}]
  /\ peer_delivered = [peer \in Correct \ {Local} |-> {}]

\* The fields of the runner that the handlers of disclosure messages leave alone.
certificationVars ==
  <<state, proposal_inlet, proposal_outlet, proposed, result_outlet,
    database_disclosed, disclosure_sends, proposed_set, accepted_set, certification,
    decision_inlet, decision_outlet, requests, responses, decide_runs, panicked,
    byzantine_messages>>

\* The broadcasts of the runner, as a set.
broadcast_set(broadcasts) == {broadcasts[k] : k \in 1..Len(broadcasts)}

\* try_deliver_disclosure that does not wait for the ready messages.
try_deliver_disclosure_without_quorum(origin, disclosure, received, support) ==
  IF /\ origin \notin delivered[Local]
     /\ <<origin, disclosure>> \in received
  THEN /\ delivered' = [delivered EXCEPT ![Local] = @ \cup {origin}]
       /\ safe_set' = [safe_set EXCEPT ![Local] = @ \cup {disclosure}]
  ELSE UNCHANGED <<delivered, safe_set>>

\* try_deliver_disclosure: the disclosure of origin is delivered once, when a
\* quorum of members is ready for it and the disclosure itself was received;
\* its element is safe from then on.
try_deliver_disclosure(origin, disclosure, received, support) ==
  IF /\ origin \notin delivered[Local]
     /\ <<origin, disclosure>> \in received
     /\ support[<<origin, disclosure>>] >= quorum(NumReplicas)
  THEN /\ delivered' = [delivered EXCEPT ![Local] = @ \cup {origin}]
       /\ safe_set' = [safe_set EXCEPT ![Local] = @ \cup {disclosure}]
  ELSE UNCHANGED <<delivered, safe_set>>

\* process_disclosure_send that echoes every disclosure it had not received.
process_disclosure_send_echoing_every_disclosure(origin, disclosure) ==
  /\ disclosures_received' = disclosures_received \cup {<<origin, disclosure>>}
  /\ IF <<origin, disclosure>> \notin disclosures_received
     THEN try_deliver_disclosure(origin, disclosure,
                                 disclosures_received \cup {<<origin, disclosure>>},
                                 ready_support)
     ELSE UNCHANGED <<delivered, safe_set>>
  /\ IF <<origin, disclosure>> \notin echoes_sent
     THEN /\ echoes_sent' = echoes_sent \cup {<<origin, disclosure>>}
          /\ echo_broadcasts' =
               Append(echo_broadcasts, [origin |-> origin, disclosure |-> disclosure])
     ELSE UNCHANGED <<echoes_sent, echo_broadcasts>>
  /\ UNCHANGED <<echoes_collected, echo_support, ready_sent, ready_collected,
                 ready_support, ready_broadcasts>>

\* process_disclosure_send that does not try to deliver.
process_disclosure_send_without_delivery(origin, disclosure) ==
  /\ disclosures_received' = disclosures_received \cup {<<origin, disclosure>>}
  /\ UNCHANGED <<delivered, safe_set>>
  /\ IF \A sent \in DisclosureIds : <<origin, sent>> \notin echoes_sent
     THEN /\ echoes_sent' = echoes_sent \cup {<<origin, disclosure>>}
          /\ echo_broadcasts' =
               Append(echo_broadcasts, [origin |-> origin, disclosure |-> disclosure])
     ELSE UNCHANGED <<echoes_sent, echo_broadcasts>>
  /\ UNCHANGED <<echoes_collected, echo_support, ready_sent, ready_collected,
                 ready_support, ready_broadcasts>>

\* process_disclosure_send (disclosure_send.rs lines 44-86): the disclosure is
\* recorded under (source, identifier), and delivered if it was only its value
\* that was missing; an echo is broadcast if echoes_sent has no entry for the
\* source, and the entry is made.
process_disclosure_send(origin, disclosure) ==
  /\ disclosures_received' = disclosures_received \cup {<<origin, disclosure>>}
  /\ IF <<origin, disclosure>> \notin disclosures_received
     THEN try_deliver_disclosure(origin, disclosure,
                                 disclosures_received \cup {<<origin, disclosure>>},
                                 ready_support)
     ELSE UNCHANGED <<delivered, safe_set>>
  /\ IF \A sent \in DisclosureIds : <<origin, sent>> \notin echoes_sent
     THEN /\ echoes_sent' = echoes_sent \cup {<<origin, disclosure>>}
          /\ echo_broadcasts' =
               Append(echo_broadcasts, [origin |-> origin, disclosure |-> disclosure])
     ELSE UNCHANGED <<echoes_sent, echo_broadcasts>>
  /\ UNCHANGED <<echoes_collected, echo_support, ready_sent, ready_collected,
                 ready_support, ready_broadcasts>>

\* handle_message on a DisclosureSend: validate_disclosure_send (lines 19-42)
\* lets through the disclosures that their source signed, so the source is the
\* origin.
handle_disclosure_send(origin, disclosure) ==
  /\ origin \in Origins
  /\ process_disclosure_send(origin, disclosure)
  /\ UNCHANGED <<peer_ready, peer_delivered>>
  /\ UNCHANGED certificationVars
  /\ UNCHANGED <<frameVars, prepareVars, validatorVars, manualVars, signupVars>>

\* The ready message for a disclosure of origin is broadcast unless one was
\* issued for origin before.
issue_ready(origin, disclosure, due) ==
  IF due /\ origin \notin ready_sent
  THEN /\ ready_sent' = ready_sent \cup {origin}
       /\ ready_broadcasts' =
            Append(ready_broadcasts, [origin |-> origin, disclosure |-> disclosure])
  ELSE UNCHANGED <<ready_sent, ready_broadcasts>>

\* process_disclosure_echo: the first echo of a source for origin counts for
\* the disclosure it names; with a quorum of echoes the runner is ready.
process_disclosure_echo(source, origin, disclosure) ==
  IF <<source, origin>> \in echoes_collected
  THEN UNCHANGED <<echoes_collected, echo_support, ready_sent, ready_broadcasts>>
  ELSE LET support == [echo_support EXCEPT ![<<origin, disclosure>>] = @ + 1] IN
       /\ echoes_collected' = echoes_collected \cup {<<source, origin>>}
       /\ echo_support' = support
       /\ issue_ready(origin, disclosure,
                      support[<<origin, disclosure>>] >= quorum(NumReplicas))

\* handle_message on a DisclosureEcho of a member; the echo of the runner
\* itself is one it has broadcast.
handle_disclosure_echo(source, origin, disclosure) ==
  /\ origin \in Origins
  /\ source = Local
       => [origin |-> origin, disclosure |-> disclosure] \in broadcast_set(echo_broadcasts)
  /\ process_disclosure_echo(source, origin, disclosure)
  /\ UNCHANGED <<disclosures_received, echoes_sent, echo_broadcasts, ready_collected,
                 ready_support, delivered, safe_set, peer_ready, peer_delivered>>
  /\ UNCHANGED certificationVars
  /\ UNCHANGED <<frameVars, prepareVars, validatorVars, manualVars, signupVars>>

\* process_disclosure_ready that counts every ready message it is handed.
process_disclosure_ready_counting_all(source, origin, disclosure) ==
  LET support == [ready_support EXCEPT ![<<origin, disclosure>>] = @ + 1] IN
  /\ ready_collected' = ready_collected \cup {<<source, origin>>}
  /\ ready_support' = support
  /\ issue_ready(origin, disclosure,
                 support[<<origin, disclosure>>] >= plurality(NumReplicas))
  /\ try_deliver_disclosure(origin, disclosure, disclosures_received, support)

\* process_disclosure_ready: the first ready message of a source for origin
\* counts for the disclosure it names; with a plurality of them the runner is
\* ready too, with a quorum it delivers the disclosure if it has it.
process_disclosure_ready(source, origin, disclosure) ==
  IF <<source, origin>> \in ready_collected
  THEN UNCHANGED <<ready_collected, ready_support, ready_sent, ready_broadcasts,
                   delivered, safe_set>>
  ELSE LET support == [ready_support EXCEPT ![<<origin, disclosure>>] = @ + 1] IN
       /\ ready_collected' = ready_collected \cup {<<source, origin>>}
       /\ ready_support' = support
       /\ issue_ready(origin, disclosure,
                      support[<<origin, disclosure>>] >= plurality(NumReplicas))
       /\ try_deliver_disclosure(origin, disclosure, disclosures_received, support)

\* handle_message on a DisclosureReady of a member; the ready message of the
\* runner itself is one it has broadcast.
handle_disclosure_ready(source, origin, disclosure) ==
  /\ origin \in Origins
  /\ source = Local
       => [origin |-> origin, disclosure |-> disclosure] \in broadcast_set(ready_broadcasts)
  /\ process_disclosure_ready(source, origin, disclosure)
  /\ UNCHANGED <<disclosures_received, echoes_sent, echo_broadcasts, echoes_collected,
                 echo_support, peer_ready, peer_delivered>>
  /\ UNCHANGED certificationVars
  /\ UNCHANGED <<frameVars, prepareVars, validatorVars, manualVars, signupVars>>

NextDisclosure ==
  \/ \E origin \in Replicas, disclosure \in DisclosureIds :
       handle_disclosure_send(origin, disclosure)
  \/ \E source \in Replicas, origin \in Replicas, disclosure \in DisclosureIds :
       handle_disclosure_echo(source, origin, disclosure)
  \/ \E source \in Replicas, origin \in Replicas, disclosure \in DisclosureIds :
       handle_disclosure_ready(source, origin, disclosure)

\* The other correct members of the view.
Peers == Correct \ {Local}

\* handle_message on the DisclosureReady of another correct member: it is the
\* one ready message that member has broadcast for the origin.
handle_peer_ready(source, origin, disclosure) ==
  /\ source \in Peers
  /\ disclosure \in peer_ready[source]
  /\ handle_disclosure_ready(source, origin, disclosure)

\* handle_message on a DisclosureReady of a byzantine member, or on the
\* runner's own.
handle_other_ready(source, origin, disclosure) ==
  /\ source \notin Peers
  /\ handle_disclosure_ready(source, origin, disclosure)

\* Another correct member becomes ready for a disclosure of the origin: it
\* issues one ready message for an origin, as issue_ready does.
peer_issue_ready(peer, disclosure) ==
  /\ peer \in Peers
  /\ peer_ready[peer] = {}
  /\ peer_ready' = [peer_ready EXCEPT ![peer] = {disclosure}]
  /\ UNCHANGED <<disclosures_received, echoes_sent, echoes_collected, echo_support,
                 ready_sent, ready_collected, ready_support, echo_broadcasts,
                 ready_broadcasts, peer_delivered, delivered, safe_set>>
  /\ UNCHANGED certificationVars
  /\ UNCHANGED <<frameVars, prepareVars, validatorVars, manualVars, signupVars>>

\* The correct members whose ready message for the disclosure has been
\* broadcast.
ready_members(origin, disclosure) ==
  {peer \in Peers : disclosure \in peer_ready[peer]}
    \cup (IF [origin |-> origin, disclosure |-> disclosure] \in broadcast_set(ready_broadcasts)
          THEN {Local} ELSE {})

\* Another correct member delivers a disclosure of the origin, as
\* try_deliver_disclosure does: once for the origin, with the ready messages of
\* a quorum of members, of which the byzantine members may be part.
peer_deliver(peer, origin, disclosure) ==
  /\ peer \in Peers
  /\ origin \in Origins
  /\ peer_delivered[peer] = {}
  /\ Cardinality(ready_members(origin, disclosure) \cup Byzantine) >= quorum(NumReplicas)
  /\ peer_delivered' = [peer_delivered EXCEPT ![peer] = {disclosure}]
  /\ UNCHANGED <<disclosures_received, echoes_sent, echoes_collected, echo_support,
                 ready_sent, ready_collected, ready_support, echo_broadcasts,
                 ready_broadcasts, peer_ready, delivered, safe_set>>
  /\ UNCHANGED certificationVars
  /\ UNCHANGED <<frameVars, prepareVars, validatorVars, manualVars, signupVars>>

NextAgreement ==
  \/ \E origin \in Replicas, disclosure \in DisclosureIds :
       handle_disclosure_send(origin, disclosure)
  \/ \E source \in Replicas, origin \in Replicas, disclosure \in DisclosureIds :
       handle_disclosure_echo(source, origin, disclosure)
  \/ \E source \in Replicas, origin \in Replicas, disclosure \in DisclosureIds :
       handle_peer_ready(source, origin, disclosure)
  \/ \E source \in Replicas, origin \in Replicas, disclosure \in DisclosureIds :
       handle_other_ready(source, origin, disclosure)
  \/ \E peer \in Replicas, disclosure \in DisclosureIds : peer_issue_ready(peer, disclosure)
  \/ \E peer \in Replicas, origin \in Replicas, disclosure \in DisclosureIds :
       peer_deliver(peer, origin, disclosure)

\* The senders of lattice messages: the members of the view and a sender that
\* is not one of them.
Senders == 1..(NumReplicas + 1)

\* The disclosure messages a sender may send about an origin.
LatticeMessages ==
  [kind : {"DisclosureSend", "DisclosureEcho", "DisclosureReady"},
   origin : Origins, disclosure : DisclosureIds]

\* process_message (mod.rs lines 262-290) after validate_message: the handler
\* of the kind of the message.
process_message(source, message) ==
  CASE message.kind = "DisclosureSend" ->
         /\ source = message.origin
         /\ handle_disclosure_send(message.origin, message.disclosure)
    [] message.kind = "DisclosureEcho" ->
         handle_disclosure_echo(source, message.origin, message.disclosure)
    [] message.kind = "DisclosureReady" ->
         handle_disclosure_ready(source, message.origin, message.disclosure)

\* handle_message that does not look the source up among the members.
handle_message_without_membership(source, message) ==
  process_message(source, message)

\* handle_message (mod.rs lines 223-239): the message of a member is validated
\* and processed; for any other source the handler fails with ForeignSource,
\* and the receive loop of run drops the error.  byzantine_messages counts the
\* messages of senders outside the view too.
handle_message(source, message) ==
  IF source \in Replicas
  THEN process_message(source, message)
  ELSE /\ byzantine_messages < MaxByzantineMessages
       /\ byzantine_messages' = byzantine_messages + 1
       /\ UNCHANGED <<state, proposal_inlet, proposal_outlet, proposed, result_outlet,
                      database_disclosed, disclosure_sends, delivered, safe_set,
                      proposed_set, accepted_set, certification, decision_inlet,
                      decision_outlet, requests, responses, decide_runs, panicked>>
       /\ UNCHANGED <<frameVars, prepareVars, validatorVars, manualVars, disclosureVars, signupVars>>

NextMembership ==
  \E source \in Senders, message \in LatticeMessages : handle_message(source, message)

(***************************************************************************)
(* The commit loop of serve_prepare on a database that holds records.      *)
(***************************************************************************)
\* PrepareHandle::Standalone(extract) (prepare.rs line 255): the handle holds
\* the extract of the recorded prepare itself.
Standalone(state_extract) == [tag |-> "Standalone", extract |-> state_extract]

\* The extract of the prepare of `id` at `height` with `commitment`, out of the
\* witnessed batch that holds this prepare alone.
extract_of(id, height, commitment) ==
  extract(WitnessedBatch(<<[id |-> id, height |-> height, commitment |-> commitment]>>,
                         "plurality"), 0)

\* The records prepare.states may hold for `id` when a batch arrives: none, a
\* Consistent one whose handle is Standalone, pending in the stale set or not,
\* or an Equivocated one.
RecordedStates(id) ==
  {NoState}
    \cup {Consistent(height, "c1", Standalone(extract_of(id, height, "c1")), is_stale) :
            height \in PrepareHeights, is_stale \in BOOLEAN}
    \cup {Equivocated(extract_of(id, height, "c1"), extract_of(id, height, "c2")) :
            height \in PrepareHeights}

\* A database with records: the stale set holds the ids whose record is stale.
InitRecorded ==
  /\ states \in [Ids -> UNION {RecordedStates(id) : id \in Ids}]
  /\ \A id \in Ids : states[id] \in RecordedStates(id)
  /\ stale = {id \in Ids : states[id].tag = "Consistent" /\ states[id].stale}
  /\ assignments = {}
  /\ batches = <<>>
  /\ session_at = [s \in Sessions |-> "accept"]
  /\ session_prepares = [s \in Sessions |-> <<>>]
  /\ session_signatures = [s \in Sessions |-> NoState]
  /\ session_unknown_ids = [s \in Sessions |-> <<>>]
  /\ session_sent = [s \in Sessions |-> <<>>]
  /\ session_error = [s \in Sessions |-> "None"]
  /\ commits = <<>>
  /\ database_void = FALSE
  /\ shutdown_database = NoState

\* Sessions on the fast path: the prepares, then their witness.
NextRecorded ==
  \/ \E s \in Sessions : Accept(s)
  \/ \E s \in Sessions : \E request \in PreparesRequests : ReceivePrepares(s, request)
  \/ \E s \in Sessions :
       \E request \in WitnessRequests(session_prepares[s]) : ReceiveBatch(s, request)

\* Sessions on the signed path, served side by side up to the witness shard:
\* the prepares, their signatures, and the answer to UnknownIds.
NextAssignments ==
  \/ \E s \in Sessions : AcceptConcurrent(s)
  \/ \E s \in Sessions : \E request \in PreparesRequests : ReceivePrepares(s, request)
  \/ \E s \in Sessions :
       \E request \in SignaturesRequests(session_prepares[s]) : ReceiveBatch(s, request)
  \/ \E s \in Sessions :
       \E request \in PrepareRequests(session_at[s], session_prepares[s], session_unknown_ids[s]) :
         ReceiveAssignments(s, request)

(***************************************************************************)
(* PART VII.  processing/processor/signup: id_claims                        *)
(***************************************************************************)
MaxClients == 2

MaxClaims == 2

Clients == 1..MaxClients

\* signup::IdClaim, by what id_claims reads of it: the id claimed, the client
\* that claims it, the view it was made in (that of the replica or another)
\* and whether IdClaim::validate accepts it.
IdClaims == [id : Ids, client : Clients, view : {"view", "foreign"}, valid : BOOLEAN]

\* The claims of one SignupRequest::IdClaims.
ClaimVectors == UNION {[1..n -> IdClaims] : n \in 1..MaxClaims}

\* IdAssignment::certify(keychain, claim): the replica's multi-signature on the
\* assignment of the claim's id to the claim's client.
certify_assignment(claim) == [id |-> claim.id, client |-> claim.client]

\* Mutant of or_insert: the entry takes the claim whether vacant or not.
or_insert_replacing(db_claims, claim) ==
  [db_claims EXCEPT ![claim.id] = [tag |-> "Some", claim |-> claim]]

\* claims.entry(claim.id()).or_insert(claim.clone()) (lines 33-37): a vacant
\* entry takes the claim, an occupied one stays.
or_insert(db_claims, claim) ==
  IF db_claims[claim.id].tag = "None"
  THEN [db_claims EXCEPT ![claim.id] = [tag |-> "Some", claim |-> claim]]
  ELSE db_claims

\* The map and collect of lines 23-52 from `index` (1-based) on: collect stops
\* at the first Err, the claims after it are not looked at.
RECURSIVE collect_signatures(_, _, _, _, _)
collect_signatures(db_claims, transaction, claims, index, signatures) ==
  IF index > Len(claims)
  THEN [claims |-> db_claims, transaction |-> transaction,
        signatures |-> [tag |-> "Ok", value |-> signatures]]
  ELSE LET claim == claims[index] IN
       IF claim.view # "view"
       THEN [claims |-> db_claims, transaction |-> transaction,
             signatures |-> [tag |-> "Err", error |-> "ForeignView"]]
       ELSE IF ~claim.valid
       THEN [claims |-> db_claims, transaction |-> transaction,
             signatures |-> [tag |-> "Err", error |-> "InvalidRequest"]]
       ELSE LET inserted == or_insert(db_claims, claim)
                stored == inserted[claim.id].claim
            IN  IF stored.client = claim.client
                THEN collect_signatures(inserted, transaction \cup {claim.id}, claims,
                                        index + 1,
                                        Append(signatures,
                                               [tag |-> "Ok", signature |-> certify_assignment(claim)]))
                ELSE collect_signatures(inserted, transaction, claims, index + 1,
                                        Append(signatures, [tag |-> "Err", claim |-> stored]))

InitSignup ==
  /\ signup_claims = [id \in Ids |-> NoState]
  /\ signup_claimed = {}
  /\ signup_response = NoState

\* id_claims (lines 15-59): the transaction is executed whether the collect
\* failed or not, then the signatures are returned, or the error.
id_claims(claims) ==
  LET collected == collect_signatures(signup_claims, {}, claims, 1, <<>>) IN
  /\ signup_claims' = collected.claims
  /\ signup_claimed' = signup_claimed \cup collected.transaction
  /\ signup_response' =
       IF collected.signatures.tag = "Ok"
       THEN [tag |-> "IdAssignments", signatures |-> collected.signatures.value]
       ELSE collected.signatures
  /\ UNCHANGED <<frameVars, prepareVars, latticeVars, validatorVars, manualVars,
                 disclosureVars>>

NextSignup == \E claims \in ClaimVectors : id_claims(claims)

(***************************************************************************)
(* Specifications.                                                         *)
(***************************************************************************)
Init ==
  InitFrame /\ InitPrepare /\ InitLattice /\ InitEquivocation /\ InitInstall /\ InitDisclosure /\ InitSignup

SpecFrame == Init /\ [][NextFrame]_vars

\* The genesis frame of tests::manual, everything else as constructed.
InitOfManual ==
  InitManual /\ InitPrepare /\ InitLattice /\ InitEquivocation /\ InitInstall /\ InitDisclosure /\ InitSignup

SpecManual == InitOfManual /\ [][NextManual]_vars

SpecPrepare == Init /\ [][NextPrepare]_vars

SpecConcurrent == Init /\ [][NextConcurrent]_vars

SpecLattice == Init /\ [][NextLattice]_vars

SpecEquivocation == Init /\ [][NextEquivocation]_vars

SpecInstall == Init /\ [][NextInstall]_vars

SpecDisclosure == Init /\ [][NextDisclosure]_vars

SpecAgreement == Init /\ [][NextAgreement]_vars

SpecMembership == Init /\ [][NextMembership]_vars

\* The prepare pipeline on a database that holds records.
InitOfRecorded ==
  InitFrame /\ InitRecorded /\ InitLattice /\ InitEquivocation /\ InitInstall /\ InitDisclosure /\ InitSignup

SpecRecorded == InitOfRecorded /\ [][NextRecorded]_vars

SpecAssignments == Init /\ [][NextAssignments]_vars

SpecSignup == Init /\ [][NextSignup]_vars

\* A step of a correct member: the application proposes, the run loop takes
\* the proposal or a message.
correct_step ==
  \/ \E r \in Correct : propose(r)
  \/ \E r \in Correct : run_proposal(r)
  \/ \E r \in Correct, origin \in Replicas : deliver_disclosure(r, origin)
  \/ \E q \in Correct, request \in requests : handle_certification_request(q, request)
  \/ \E p \in Correct, response \in responses : handle_certification_update(p, response)

\* The run loops of the correct members keep running and the messages between
\* them are pushed until acknowledged: as long as a correct member can take a
\* step, one does.  Nothing is assumed of the byzantine members.
\* The steps of the instance when the byzantine member makes up no message:
\* it signs a confirmation or stays silent.
NextLatticeFair ==
  \/ correct_step
  \/ \E p \in Replicas, b \in Replicas : handle_byzantine_confirmation(p, b)

SpecLatticeFair == Init /\ [][NextLatticeFair]_vars /\ WF_vars(correct_step)

\* The runners with a byzantine member whose requests may fail validation.
NextValidation ==
  \/ correct_step
  \/ \E q \in Replicas, b \in Replicas, elements \in SUBSET Elements :
       handle_byzantine_request(q, b, elements)
  \/ \E q \in Replicas, b \in Replicas, elements \in SUBSET Elements :
       reject_certification_request(q, b, elements)

SpecValidation == Init /\ [][NextValidation]_vars

(***************************************************************************)
(* Claims on the frame.                                                    *)
(***************************************************************************)

\* tests::check_frame: every client between the genesis height and the maximal
\* height, replaying lookup(current), ends at or above the top.
check_frame(tl) ==
  \A current \in base..(MaxHeight - 1) :
    Client_update(current,
                  last_installable(base, tl, current),
                  Frame_lookup(base, highway, metadata, lookup, current)) >= FrameTop

\* The destinations of the tailless installs the highway holds.
HighwayTailless ==
  {metadata[k].destination_height : k \in {j \in 1..Len(metadata) : metadata[j].tailless}}

\* C3 as stated: after any sequence of installs fed to Frame::update, a fresh
\* client at any height of [genesis, max), with its last installable view at the
\* latest tailless destination not above it, reaches the top by replaying
\* lookup(current).
C3_AnySequenceReachesTop == check_frame(tailless)

\* C3 amended: the same holds when every install fed so far starts at a view the
\* highway passed through (the base or the destination of an install it held)
\* and the client's last installable view is the latest tailless destination of
\* the highway not above its height.
C3_AttachedSequenceReachesTop == connected => check_frame(HighwayTailless)

\* C3 witness: three attached installs made a highway of two installs, a
\* tailless one first, and a client in the middle has to replay a suffix.
C3_Witness ==
  /\ connected
  /\ Len(highway) = 2
  /\ metadata[1].tailless
  /\ FrameTop = MaxHeight
  /\ lookup[Len(lookup)] = 1

\* C4: top never decreases along updates, an update that returns Some(new) has
\* new.top() >= old.top(), and top is never below the genesis height.
C4_TopMonotone ==
  /\ FrameTop >= base
  /\ [][/\ FrameTop' >= FrameTop
        /\ FrameTop' >= base'
        /\ updated' = "Some" => FrameTop' >= previous_top']_vars

\* C4 witness: an update returned Some without growing the top: it improved a
\* highway of several installs, and installs follow the one it put in.
C4_Witness ==
  /\ updated = "Some"
  /\ FrameTop = previous_top
  /\ Len(highway) >= 2
  /\ metadata[1].destination_height - metadata[1].source_height >= 2

(***************************************************************************)
(* Claims on lattice agreement.                                            *)
(***************************************************************************)
\* The runner of r has emitted its decision.
decided(r) == decision_outlet[r].tag = "Some"

\* The set of the elements r decided.
decided_elements(r) ==
  {decision_outlet[r].elements[k] : k \in 1..Len(decision_outlet[r].elements)}

\* Step to Decided of r.
enters_decided(r) == state[r] # "Decided" /\ state'[r] = "Decided"

\* C1: with fewer than a third of the members byzantine, any two correct
\* replicas that decide, decide on element sets of which one is a subset of
\* the other.
C1_DecisionsComparable ==
  \A r1 \in Correct, r2 \in Correct :
    decided(r1) /\ decided(r2)
      => \/ decided_elements(r1) \subseteq decided_elements(r2)
         \/ decided_elements(r2) \subseteq decided_elements(r1)

\* Two correct replicas have decided on different sets.
C1_Witness ==
  \E r1 \in Correct, r2 \in Correct :
    /\ decided(r1) /\ decided(r2)
    /\ decided_elements(r1) # decided_elements(r2)

AllDisclosed == \A o \in Proposers : disclosure_sends[o] # <<>>

\* The certificate of the decision of r verifies at quorum: a quorum of
\* members signed the identifier of the elements decided.
certificate_verifies(r) ==
  /\ decision_outlet[r].certificate.statement = identifier(decided_elements(r))
  /\ decision_outlet[r].certificate.signers \subseteq Replicas
  /\ Cardinality(decision_outlet[r].certificate.signers) >= quorum(NumReplicas)

C9_StateMachine ==
  [][\A r \in Correct :
       /\ state'[r] # state[r]
            => <<state[r], state'[r]>> \in {<<"Disclosing", "Proposing">>,
                                           <<"Proposing", "Decided">>}
       /\ decision_outlet'[r] # decision_outlet[r] <=> enters_decided(r)
       /\ decide_runs'[r] <= 1
       /\ ~panicked'[r]]_vars

\* A runner is Decided, its decision emitted by the one run of decide.
C9_Witness ==
  \E r \in Correct :
    /\ state[r] = "Decided"
    /\ decided(r)
    /\ decide_runs[r] = 1

C11_ProposedEventuallyDecides ==
  \A r \in Correct \cap Certifiers :
    proposed[r] ~> (state[r] = "Decided" /\ decided(r))

(***************************************************************************)
(* Claims on the validation of equivocations.                              *)
(***************************************************************************)
\* validate has returned on the pair <<lhe, rhe>>.
validated == equivocation.tag = "Some" /\ validation # "none"

first_extract == equivocation.extracts[1]

second_extract == equivocation.extracts[2]

\* The extract validates on its own: its view is known, its witness
\* certificate verifies at plurality on the root, the inclusion proof of its
\* prepare under the root is valid.
valid_extract(ext) ==
  /\ ext.view \in KnownViews
  /\ verify_plurality(ext.witness)
  /\ inclusion_verify(ext.inclusion, ext.root, ext.prepare)

\* C13: Equivocation::validate returns Ok for two extracts that share an id,
\* differ in commitment and validate each on their own.
C13_ValidEquivocationAccepted ==
  validated /\ first_extract.prepare.id = second_extract.prepare.id
            /\ first_extract.prepare.commitment # second_extract.prepare.commitment
            /\ valid_extract(first_extract) /\ valid_extract(second_extract)
    => validation = "Ok"

\* validate has returned on two valid extracts of one id with two commitments,
\* under different roots.
C13_Witness ==
  /\ validated
  /\ first_extract.prepare.id = second_extract.prepare.id
  /\ first_extract.prepare.commitment # second_extract.prepare.commitment
  /\ valid_extract(first_extract) /\ valid_extract(second_extract)
  /\ first_extract.root # second_extract.root

\* C14: Equivocation::validate fails with IdMismatch for two extracts of
\* different ids, whatever their commitments and their validity.
C14_IdMismatch ==
  validated /\ first_extract.prepare.id # second_extract.prepare.id => validation = "IdMismatch"

\* validate has returned on two extracts of different ids and one commitment,
\* one of them invalid.
C14_Witness ==
  /\ validated
  /\ first_extract.prepare.id # second_extract.prepare.id
  /\ first_extract.prepare.commitment = second_extract.prepare.commitment
  /\ ~valid_extract(first_extract)

\* C15 as stated: Equivocation::validate fails with ConsistentExtracts for
\* every two extracts of equal commitments.
C15_EqualCommitmentsConsistent ==
  validated /\ first_extract.prepare.commitment = second_extract.prepare.commitment
    => validation = "ConsistentExtracts"

\* C15: Equivocation::validate fails with ConsistentExtracts for every two
\* extracts of equal commitments that share an id, whatever their validity.
C15_SameIdEqualCommitmentsConsistent ==
  validated /\ first_extract.prepare.id = second_extract.prepare.id
            /\ first_extract.prepare.commitment = second_extract.prepare.commitment
    => validation = "ConsistentExtracts"

\* validate has returned on two valid extracts of one id and one commitment.
C15_Witness ==
  /\ validated
  /\ first_extract.prepare.id = second_extract.prepare.id
  /\ first_extract.prepare.commitment = second_extract.prepare.commitment
  /\ valid_extract(first_extract) /\ valid_extract(second_extract)

(***************************************************************************)
(* Claims on the frame of tests::manual.                                   *)
(***************************************************************************)
\* The six updates of the test were applied in the order of the test.
manual_done == applied = ManualScript

\* C16 as stated: after the six updates of tests::manual in order, top is 40
\* and lookup(20) is the suffix of the highway from install index 3 on.
C16_LookupFromIndexThree ==
  manual_done =>
    /\ FrameTop = 40
    /\ Frame_lookup(base, highway, metadata, lookup, 20) = SubSeq(highway, 3 + 1, Len(highway))

\* C16: after the six updates of tests::manual in order, top is 40 and
\* lookup(20) is the whole highway, the suffix from install index 0 on.
C16_LookupFromIndexZero ==
  manual_done =>
    /\ FrameTop = 40
    /\ highway = ManualScript
    /\ Frame_lookup(base, highway, metadata, lookup, 20) = SubSeq(highway, 0 + 1, Len(highway))

\* The six updates were applied in order and each returned a frame.
C16_Witness == manual_done /\ updated = "Some" /\ Len(highway) = Len(ManualScript)

(***************************************************************************)
(* Claims on Frame::update.                                                *)
(***************************************************************************)
\* The destination of the install is above the top of the frame.
grows(install) == install.destination_height > FrameTop

\* The improvement in the words of the specification: some install of the
\* highway starts no earlier and ends no later than the install, or the install
\* is tailless and the install of the highway that ends where it ends is not.
improves_loosely(install) ==
  \/ \E k \in 1..Len(metadata) :
       /\ install.source_height <= metadata[k].source_height
       /\ install.destination_height >= metadata[k].destination_height
  \/ /\ install.tailless
     /\ \E k \in 1..Len(metadata) :
          /\ metadata[k].destination_height = install.destination_height
          /\ ~metadata[k].tailless

\* The improvement the code accepts: the install starts where an install of the
\* highway starts and ends where an install of the highway ends, and either
\* the former comes strictly before the latter or the install is tailless and
\* the latter is not.
improves_exactly(install) ==
  \E s \in 1..Len(metadata), d \in 1..Len(metadata) :
    /\ metadata[s].source_height = install.source_height
    /\ metadata[d].destination_height = install.destination_height
    /\ \/ s < d
       \/ install.tailless /\ ~metadata[d].tailless

frame_kept == UNCHANGED <<base, highway, metadata, lookup>>

\* C17 as stated: Frame::update returns Some exactly when the install grows
\* the top or improves an entry in the words of the specification, and on None
\* the frame stays as it was.
C17_SomeIffGrowsOrImprovesLoosely ==
  [][\A install \in Installs : FrameUpdate(install) =>
       /\ (updated' = "Some") <=> (grows(install) \/ improves_loosely(install))
       /\ updated' = "None" => frame_kept]_vars

\* C17: Frame::update returns Some exactly when the install grows the top or
\* starts at the source of an install of the highway and ends at the
\* destination of one, the first strictly before the second or the install
\* tailless where the second is tailed; on None the frame stays as it was.
C17_SomeIffGrowsOrImprovesExactly ==
  [][\A install \in Installs : FrameUpdate(install) =>
       /\ (updated' = "Some") <=> (grows(install) \/ improves_exactly(install))
       /\ updated' = "None" => frame_kept]_vars

\* An update has returned Some without raising the top: an improvement.
C17_Witness == updated = "Some" /\ FrameTop = previous_top /\ Len(highway) > 0

(***************************************************************************)
(* Claims on malformed batches.                                            *)
(***************************************************************************)
\* C18: a session whose Prepares vector is not strictly increasing by id ends
\* with MalformedBatch on the message that follows, Witness or Signatures: no
\* state of an id changes, nothing is sent to the session.
C18_NotIncreasingEndsMalformed ==
  [][\A s \in Sessions :
       \A request \in PrepareRequests(session_at[s], session_prepares[s], session_unknown_ids[s]) :
         (/\ request.tag \in {"Witness", "Signatures"}
          /\ ~strictly_increasing(session_prepares[s])
          /\ ReceiveBatch(s, request))
         => /\ session_at'[s] = "done"
            /\ session_error'[s] = "MalformedBatch"
            /\ states' = states
            /\ stale' = stale
            /\ session_sent'[s] = session_sent[s]]_vars

(***************************************************************************)
(* Claims on the shutdown of the processor.                                *)
(***************************************************************************)
\* The step is session s reaching one of the locks of serve_prepare (lines 97,
\* 145, 158, 224) on the request.
acquires(s, request) ==
  \/ /\ ReceiveBatch(s, request)
     /\ \/ request.tag = "Witness"
        \/ request.tag = "Signatures" /\ strictly_increasing(session_prepares[s])
  \/ /\ ReceiveAssignments(s, request)
     /\ request.tag = "Assignments"
     /\ Len(request.assignments) = Len(session_unknown_ids[s])
     /\ assignments_match(session_unknown_ids[s], request.assignments)
  \/ /\ ReceiveWitness(s, request)
     /\ request.tag = "Witness"
     /\ verify_plurality(request.witness)

\* C19: once Processor::shutdown has voided the database, every session that
\* goes for the database fails with DatabaseVoid and ends having changed and
\* sent nothing; the database stays voided, and the Database handed back by
\* shutdown stays as it was handed back.
C19_VoidedDatabaseUntouched ==
  [][database_void =>
       /\ database_void'
       /\ shutdown_database' = shutdown_database
       /\ Database' = shutdown_database
       /\ \A s \in Sessions :
            \A request \in PrepareRequests(session_at[s], session_prepares[s],
                                           session_unknown_ids[s]) :
              acquires(s, request)
                => /\ session_at'[s] = "done"
                   /\ session_error'[s] = "DatabaseVoid"
                   /\ session_sent'[s] = session_sent[s]
                   /\ commits' = commits]_vars

\* The database was voided holding states, and sessions have failed on it since,
\* one of them on the lock of the commit loop.
C19_Witness ==
  /\ database_void
  /\ shutdown_database.stale # {}
  /\ \E s \in Sessions : session_error[s] = "DatabaseVoid" /\ session_sent[s] # <<>>

(***************************************************************************)
(* Claims on the check of installs.                                        *)
(***************************************************************************)
\* C20: the deserialization of an install whose source view is not registered
\* returns the error SourceUnknown, whatever its certificate and its
\* increments: no install comes out, nothing panics, the registry and the
\* frame stay as they were.
C20_SourceUnknown ==
  [][\A bytes \in InstallBytes, debug_assertions \in BOOLEAN :
       (bytes.source \notin registry /\ DeserializeInstall(bytes, debug_assertions))
         => /\ deserialized' = [tag |-> "Err", error |-> "SourceUnknown"]
            /\ registry' = registry
            /\ UNCHANGED frameVars]_vars

\* An install of an unregistered source was refused with SourceUnknown, a view
\* besides the genesis view being registered.
C20_Witness ==
  /\ deserialized = [tag |-> "Err", error |-> "SourceUnknown"]
  /\ Cardinality(registry) > 1
  /\ registry # InstallViews

(***************************************************************************)
(* Claims on what an equivocation attests.                                 *)
(***************************************************************************)
\* C21: Equivocation::validate returns Ok only on two extracts of one id, at
\* one height, of two commitments: two valid extracts of one id at two heights
\* are refused.
C21_AcceptedOnlyAtSameHeight ==
  validated /\ validation = "Ok"
    => /\ first_extract.prepare.id = second_extract.prepare.id
       /\ first_extract.prepare.height = second_extract.prepare.height
       /\ first_extract.prepare.commitment # second_extract.prepare.commitment

(***************************************************************************)
(* Claims on the witness of a batch.                                       *)
(***************************************************************************)
\* C22: a session that receives a witness which does not verify at plurality,
\* right after the prepares or after the signatures, the database not being
\* voided, ends with InvalidWitness:
\* no state of an id changes, no commit shard is sent.
C22_UnverifiedWitnessRefused ==
  [][\A s \in Sessions :
       \A request \in PrepareRequests(session_at[s], session_prepares[s], session_unknown_ids[s]) :
         (/\ ~database_void
          /\ request.tag = "Witness"
          /\ ~verify_plurality(request.witness)
          /\ ReceiveBatch(s, request) \/ ReceiveWitness(s, request))
         => /\ session_error'[s] = "InvalidWitness"
            /\ states' = states
            /\ stale' = stale
            /\ commits' = commits
            /\ session_sent'[s] = session_sent[s]]_vars

(***************************************************************************)
(* Claims on the signatures of a batch.                                    *)
(***************************************************************************)
\* Every prepare of the vector is authenticated by the signatures: its
\* individual signature verifies, or it has none and its keycard is among the
\* signers for which the reduction signature verifies.
authenticated(vector, signatures) ==
  \A k \in 1..Len(vector) :
    \/ k \in DOMAIN signatures.individual /\ signatures.individual[k] = "valid"
    \/ /\ k \in DOMAIN signatures.individual => signatures.individual[k] = "None"
       /\ signatures.reduction.genuine
       /\ vector[k].id \in signatures.reduction.signers

\* The step sends the witness shard to session s.
witness_shard_sent(s) ==
  /\ session_at[s] # "receive_witness"
  /\ session_at'[s] = "receive_witness"
  /\ session_sent'[s] = Append(session_sent[s], [tag |-> "WitnessShard"])

\* C23: a witness shard is sent for a Signatures batch only if every prepare of
\* the batch is authenticated, whatever the length of the vector of individual
\* signatures.
C23_WitnessShardOnlyIfAuthenticated ==
  [][\A s \in Sessions :
       /\ \A request \in SignaturesRequests(session_prepares[s]) :
            ReceiveBatch(s, request) /\ witness_shard_sent(s)
              => authenticated(session_prepares[s], request)
       /\ \A request \in AssignmentsRequests(session_unknown_ids[s]) :
            ReceiveAssignments(s, request) /\ witness_shard_sent(s)
              => authenticated(session_prepares[s], session_signatures[s])]_vars

(***************************************************************************)
(* Claims on sessions served side by side.                                 *)
(***************************************************************************)
\* The two witnessed batches hold one prepare each for the id, at one height,
\* of two commitments.
conflicting(first, second, id) ==
  /\ verify_plurality(first.witness) /\ verify_plurality(second.witness)
  /\ \E j \in PositionsOf(first.prepares, id), k \in PositionsOf(second.prepares, id) :
       /\ first.prepares[j].height = second.prepares[k].height
       /\ first.prepares[j].commitment # second.prepares[k].commitment

\* The shard is a commit shard with an equivocation of the id.
lists_equivocation(shard, id) ==
  /\ shard.tag = "CommitShard"
  /\ \E k \in 1..Len(shard.exceptions) : shard.exceptions[k][1].prepare.id = id

\* C24: when two sessions served side by side have passed their witnessed
\* batches through the loop, and the batches hold prepares of one id at one
\* height with two commitments, the id is Equivocated and one of the two commit
\* shards lists an equivocation of the id.
C24_SecondSessionDetectsConflict ==
  \A id \in Ids :
    Len(commits) = 2 /\ conflicting(commits[1].batch, commits[2].batch, id)
      => /\ states[id].tag = "Equivocated"
         /\ \/ lists_equivocation(commits[1].shard, id)
            \/ lists_equivocation(commits[2].shard, id)

(***************************************************************************)
(* Claims on the handling of certification requests.                       *)
(***************************************************************************)
\* The proposer is certifying the elements: a confirmation of them counts.
certifying(p, elements) ==
  /\ ~panicked[p]
  /\ state[p] = "Proposing"
  /\ certification[p].tag = "Some"
  /\ certification[p].identifier = identifier(elements)

\* After the step the proposer holds the signature of q on the decision on the
\* elements, in its aggregator or in the certificate of its decision.
signature_held(p, q, elements) ==
  LET signature == multisign(q, identifier(elements)) IN
  \/ certification'[p].tag = "Some" /\ signature \in certification'[p].aggregator
  \/ decision_outlet'[p].tag = "Some" /\ signature \in decision_outlet'[p].certificate.signatures

\* C25: a replica that processes a valid certification request confirms it,
\* with its signature on the decision on the request's elements, exactly when
\* the elements hold all it has accepted; otherwise it signs nothing and sends
\* an update whose differences are what it has accepted without the request:
\* not empty, disjoint from the request.
C25_ConfirmationOrUpdate ==
  [][\A q \in Correct : \A request \in requests :
       handle_certification_request(q, request) =>
         LET differences == accepted_set[q] \ request.elements
             reply == [tag |-> "CertificationUpdate", source |-> q,
                        destination |-> request.source,
                        identifier |-> identifier(request.elements),
                        differences |-> differences]
         IN  IF accepted_set[q] \subseteq request.elements
             THEN /\ responses' \subseteq responses
                  /\ certifying(request.source, request.elements)
                       => signature_held(request.source, q, request.elements)
             ELSE /\ responses' = responses \cup {reply}
                  /\ differences # {}
                  /\ differences \cap request.elements = {}
                  /\ certification' = certification
                  /\ decision_outlet' = decision_outlet]_vars

\* An update of a correct replica is on its way to a proposer that holds the
\* confirmation of another.
C25_Witness ==
  \E response \in responses :
    /\ response.tag = "CertificationUpdate"
    /\ response.source \in Correct
    /\ response.differences # {}
    /\ certification[response.destination].tag = "Some"
    /\ certification[response.destination].aggregator # {}

\* C26: the accepted set of a replica only grows.  After the processing of a
\* certification request, of a correct or a byzantine member, confirmed or
\* answered with an update, it is the old accepted set together with the
\* elements of the request; a confirmed set is then the whole accepted set;
\* and no step of the runner takes an element out of it.
C26_AcceptedSetOnlyGrows ==
  [][/\ \A q \in Correct : accepted_set[q] \subseteq accepted_set'[q]
     /\ \A q \in Correct : \A request \in requests :
          handle_certification_request(q, request) =>
            /\ accepted_set'[q] = accepted_set[q] \cup request.elements
            /\ accepted_set[q] \subseteq request.elements
                 => accepted_set'[q] = request.elements
     /\ byzantine_messages' # byzantine_messages =>
          \A q \in Correct : \A b \in Byzantine : \A elements \in SUBSET Elements :
            handle_byzantine_request(q, b, elements) =>
              accepted_set'[q] = accepted_set[q] \cup elements]_vars

\* A replica that accepted elements has answered a request that missed some of
\* them with an update, and accepted more than the request held.
C26_Witness ==
  \E response \in responses :
    /\ response.tag = "CertificationUpdate"
    /\ response.source \in Correct
    /\ response.differences \subseteq accepted_set[response.source]
    /\ Cardinality(accepted_set[response.source]) > Cardinality(response.differences)

\* The elements validate as a certification request at q.
valid_elements(q) ==
  {elements \in SUBSET Elements : validate_certification_request(q, elements)}

\* The signatures of q that the proposers and the decisions hold.
signed_by(q, certifications, decisions) ==
  {signature \in UNION ({certifications[p].aggregator :
                           p \in {c \in Replicas : certifications[c].tag = "Some"}}
                        \cup {decisions[p].certificate.signatures :
                                p \in {d \in Replicas : decisions[d].tag = "Some"}}) :
     signature.signer = q}

\* C27: a certification request is processed only if its elements are not
\* empty and all in the safe set of the receiver.  A request that is not is
\* dropped: the accepted set is unchanged, nothing is signed, no reply is sent;
\* and what a replica accepts, answers or signs is on elements that validate.
\* The accepted set of a correct replica is then always within its safe set.
C27_InvalidRequestDropped ==
  [][/\ \A q \in Correct : accepted_set'[q] \subseteq safe_set'[q]
     /\ \A q \in Correct :
          /\ accepted_set'[q] # accepted_set[q]
               => \E elements \in valid_elements(q) :
                    accepted_set'[q] = accepted_set[q] \cup elements
          /\ \A response \in responses' \ responses :
               response.source = q
                 => \E elements \in valid_elements(q) :
                      response.identifier = identifier(elements)
          /\ \A signature \in signed_by(q, certification', decision_outlet')
                              \ signed_by(q, certification, decision_outlet) :
               \E elements \in valid_elements(q) :
                 signature.statement = identifier(elements)
     /\ byzantine_messages' # byzantine_messages =>
          \A q \in Correct : \A b \in Byzantine : \A elements \in SUBSET Elements :
            reject_certification_request(q, b, elements) =>
              UNCHANGED <<accepted_set, safe_set, certification, decision_outlet,
                          requests, responses>>]_vars

\* A made-up request was rejected by replicas that hold safe elements: no
\* replica has accepted anything and none certifies.
C27_Witness ==
  /\ byzantine_messages = MaxByzantineMessages
  /\ \A q \in Correct : accepted_set[q] = {} /\ certification[q].tag = "None"
  /\ \E q \in Correct : safe_set[q] # {}

\* The certification requests of p on the network.
requests_of(p, messages) == {message \in messages : message.source = p}

\* p certifies anew in the step.
certifies_anew(p) ==
  /\ certification[p].tag = "Some"
  /\ certification'[p].tag = "Some"
  /\ certification'[p].identifier # certification[p].identifier

\* C28: a proposer that receives an update on the proposal it is certifying
\* requests next the certification of the union of that proposal and the
\* differences, a strict superset of it.  The proposals of a runner, one after
\* the other, are a strictly increasing chain of sets within its safe set.
C28_ProposalsStrictlyGrow ==
  [][\A p \in Correct :
       /\ proposed_set[p] \subseteq proposed_set'[p]
       /\ proposed_set'[p] \subseteq safe_set'[p]
       /\ \A request \in requests_of(p, requests') : request.elements = proposed_set'[p]
       /\ certifies_anew(p) =>
            /\ certification[p].elements = proposed_set[p]
            /\ certification'[p].elements = proposed_set'[p]
            /\ proposed_set[p] \subseteq proposed_set'[p]
            /\ proposed_set'[p] # proposed_set[p]
            /\ requests_of(p, requests') = broadcast_request(p, proposed_set'[p])
       /\ \A response \in responses :
            handle_certification_update(p, response) /\ certifies_anew(p) =>
              /\ response.identifier = certification[p].identifier
              /\ proposed_set'[p] = proposed_set[p] \cup response.differences]_vars

\* A runner certifies three elements after an update: no replica has accepted
\* anything, so that the one message of the byzantine member was an update,
\* which a proposer takes only if it adds to its proposal.
C28_Witness ==
  /\ byzantine_messages = MaxByzantineMessages
  /\ \A q \in Correct : accepted_set[q] = {}
  /\ \E p \in Correct :
       /\ state[p] = "Proposing"
       /\ certification[p].tag = "Some"
       /\ Cardinality(certification[p].elements) = 3
       /\ requests_of(p, requests) = broadcast_request(p, proposed_set[p])

(***************************************************************************)
(* Claims on the reliable broadcast of disclosures.                        *)
(***************************************************************************)
\* The echoes the runner has broadcast for origin.
echoes_for(origin, broadcasts) ==
  {k \in 1..Len(broadcasts) : broadcasts[k].origin = origin}

\* C29: the runner broadcasts at most one echo for an origin.  A DisclosureSend
\* is echoed exactly when it is the first the runner processes from its
\* origin; a second one of the same origin with another disclosure is
\* recorded, and no echo is broadcast for it.
C29_OneEchoPerOrigin ==
  [][\A origin \in Origins :
       /\ Cardinality(echoes_for(origin, echo_broadcasts')) <= 1
       /\ \A disclosure \in DisclosureIds :
            handle_disclosure_send(origin, disclosure) =>
              /\ <<origin, disclosure>> \in disclosures_received'
              /\ IF \A first \in DisclosureIds : <<origin, first>> \notin disclosures_received
                 THEN echo_broadcasts' =
                        Append(echo_broadcasts,
                               [origin |-> origin, disclosure |-> disclosure])
                 ELSE echo_broadcasts' = echo_broadcasts]_vars

\* The runner holds two disclosures of an origin and has echoed one.
C29_Witness ==
  \E origin \in Origins :
    /\ \A disclosure \in DisclosureIds : <<origin, disclosure>> \in disclosures_received
    /\ Cardinality(echoes_for(origin, echo_broadcasts)) = 1

\* The runner broadcasts a ready message in the step, and delivers in it.
issues_ready == ready_broadcasts' # ready_broadcasts

delivers(origin) == origin \in delivered'[Local] \ delivered[Local]

delivered_disclosures ==
  safe_set[Local] \cup UNION {peer_delivered[peer] : peer \in Peers}

\* C31: with fewer than a third of the members byzantine, the disclosures that
\* correct members deliver for an origin are one and the same: no member
\* delivers twice for an origin, and no two correct members deliver different
\* disclosures of an origin that equivocates.
C31_OneDisclosureDeliveredPerOrigin ==
  /\ Cardinality(delivered_disclosures) <= 1
  /\ Cardinality(safe_set[Local]) <= Cardinality(delivered[Local])
  /\ \A origin \in delivered[Local] :
       \E disclosure \in safe_set[Local] :
         ready_support[<<origin, disclosure>>] >= quorum(NumReplicas)

\* The origin has sent two disclosures to the runner; the runner and another
\* correct member have delivered, the same one.
C31_Witness ==
  \E origin \in Origins :
    /\ \A disclosure \in DisclosureIds : <<origin, disclosure>> \in disclosures_received
    /\ origin \in delivered[Local]
    /\ \E peer \in Peers : peer_delivered[peer] = safe_set[Local]

(***************************************************************************)
(* Claims on the counting of echoes and ready messages.                    *)
(***************************************************************************)
\* The DisclosureDatabase of the runner, with its broadcasts, as one value.
disclosure_database ==
  [received |-> disclosures_received, echoes_sent |-> echoes_sent,
   echo_broadcasts |-> echo_broadcasts, echoes_collected |-> echoes_collected,
   echo_support |-> echo_support, ready_sent |-> ready_sent,
   ready_collected |-> ready_collected, ready_support |-> ready_support,
   ready_broadcasts |-> ready_broadcasts, delivered |-> delivered[Local],
   safe_set |-> safe_set[Local]]

\* The database after the handlers' steps, for the comparison of two orders of
\* the same messages: issue_ready, try_deliver_disclosure and the three
\* handlers as functions of the database.
with_ready(db, origin, disclosure, due) ==
  IF due /\ origin \notin db.ready_sent
  THEN [db EXCEPT !.ready_sent = @ \cup {origin},
                  !.ready_broadcasts =
                     Append(@, [origin |-> origin, disclosure |-> disclosure])]
  ELSE db

with_delivery(db, origin, disclosure) ==
  IF /\ origin \notin db.delivered
     /\ <<origin, disclosure>> \in db.received
     /\ db.ready_support[<<origin, disclosure>>] >= quorum(NumReplicas)
  THEN [db EXCEPT !.delivered = @ \cup {origin}, !.safe_set = @ \cup {disclosure}]
  ELSE db

after_send(db, origin, disclosure) ==
  LET recorded == [db EXCEPT !.received = @ \cup {<<origin, disclosure>>}]
      tried == IF <<origin, disclosure>> \notin db.received
               THEN with_delivery(recorded, origin, disclosure) ELSE recorded
  IN  IF \A sent \in DisclosureIds : <<origin, sent>> \notin db.echoes_sent
      THEN [tried EXCEPT !.echoes_sent = @ \cup {<<origin, disclosure>>},
                         !.echo_broadcasts =
                            Append(@, [origin |-> origin, disclosure |-> disclosure])]
      ELSE tried

after_echo(db, source, origin, disclosure) ==
  IF <<source, origin>> \in db.echoes_collected
  THEN db
  ELSE LET counted == [db EXCEPT !.echoes_collected = @ \cup {<<source, origin>>},
                                 !.echo_support[<<origin, disclosure>>] = @ + 1]
       IN  with_ready(counted, origin, disclosure,
                      counted.echo_support[<<origin, disclosure>>] >= quorum(NumReplicas))

after_ready(db, source, origin, disclosure) ==
  IF <<source, origin>> \in db.ready_collected
  THEN db
  ELSE LET counted == [db EXCEPT !.ready_collected = @ \cup {<<source, origin>>},
                                 !.ready_support[<<origin, disclosure>>] = @ + 1]
       IN  with_delivery(with_ready(counted, origin, disclosure,
                                    counted.ready_support[<<origin, disclosure>>]
                                      >= plurality(NumReplicas)),
                         origin, disclosure)

\* The messages of the other members that may reach the runner.
DisclosureMessages ==
  [kind : {"DisclosureSend", "DisclosureEcho", "DisclosureReady"},
   source : Replicas \ {Local}, origin : Origins, disclosure : DisclosureIds]

after_message(db, message) ==
  CASE message.kind = "DisclosureSend" ->
         IF message.source = message.origin
         THEN after_send(db, message.origin, message.disclosure) ELSE db
    [] message.kind = "DisclosureEcho" ->
         after_echo(db, message.source, message.origin, message.disclosure)
    [] message.kind = "DisclosureReady" ->
         after_ready(db, message.source, message.origin, message.disclosure)

\* What the runner has issued and delivered.
outcome(db) == <<broadcast_set(db.ready_broadcasts), db.delivered, db.safe_set>>

\* The functions above are the handlers: every step of a handler leaves the
\* database that the function gives.
handlers_as_functions ==
  [][\A source \in Replicas : \A origin \in Origins : \A disclosure \in DisclosureIds :
       /\ handle_disclosure_send(origin, disclosure)
            => disclosure_database' = after_send(disclosure_database, origin, disclosure)
       /\ handle_disclosure_echo(source, origin, disclosure)
            => disclosure_database'
                 = after_echo(disclosure_database, source, origin, disclosure)
       /\ handle_disclosure_ready(source, origin, disclosure)
            => disclosure_database'
                 = after_ready(disclosure_database, source, origin, disclosure)]_vars

\* A source counts once for the echoes and once for the ready messages of an
\* origin, and no support exceeds the number of members.
counted_once ==
  \A origin \in Origins :
    LET sum(support) ==
          IF MaxDisclosures = 0 THEN 0
          ELSE Cardinality({<<disclosure, k>> \in DisclosureIds \X (1..NumReplicas) :
                              k <= support[<<origin, disclosure>>]})
    IN  /\ sum(echo_support)
             = Cardinality({source \in Replicas : <<source, origin>> \in echoes_collected})
        /\ sum(ready_support)
             = Cardinality({source \in Replicas : <<source, origin>> \in ready_collected})
        /\ \A disclosure \in DisclosureIds :
             /\ echo_support[<<origin, disclosure>>] <= NumReplicas
             /\ ready_support[<<origin, disclosure>>] <= NumReplicas

\* A message of a source that has been counted for the origin, the same or a
\* conflicting one, changes nothing; a message handled twice is handled once.
duplicates_ignored ==
  \A message \in DisclosureMessages :
    LET once == after_message(disclosure_database, message) IN
    /\ after_message(once, message) = once
    /\ message.kind = "DisclosureEcho"
         /\ <<message.source, message.origin>> \in echoes_collected
         => once = disclosure_database
    /\ message.kind = "DisclosureReady"
         /\ <<message.source, message.origin>> \in ready_collected
         => once = disclosure_database

\* Two messages handled in one order or the other leave the same ready
\* messages issued and the same deliveries.
order_ignored ==
  \A first \in DisclosureMessages : \A second \in DisclosureMessages :
    outcome(after_message(after_message(disclosure_database, first), second))
      = outcome(after_message(after_message(disclosure_database, second), first))

runner_state ==
  <<state, database_disclosed, delivered, safe_set, proposed_set, accepted_set,
    certification, decision_inlet, decision_outlet, disclosure_sends, requests,
    responses, disclosureVars>>

\* C33: a lattice message whose source is not a member of the view is dropped:
\* the state and the databases of the runner are unchanged and nothing is sent
\* in response; no source outside the view is ever counted.
C33_ForeignSourceDropped ==
  [][/\ \A source \in Senders \ Replicas : \A message \in LatticeMessages :
          handle_message(source, message) => UNCHANGED runner_state
     /\ \A collected \in echoes_collected' \cup ready_collected' :
          collected[1] \in Replicas]_vars

\* A message of a source outside the view has come to a runner that had
\* counted echoes and issued its own.
C33_Witness ==
  /\ byzantine_messages = MaxByzantineMessages
  /\ echoes_collected # {}
  /\ echo_broadcasts # <<>>

(***************************************************************************)
(* Claims on the prepare states of an id.                                   *)
(***************************************************************************)
\* C35: across any sequence of processed batches the height recorded in the
\* Consistent state of an id never decreases: a Consistent state is replaced
\* only by a Consistent state at the same or a higher height, or by Equivocated.
C35_HeightNeverDecreases ==
  [][\A id \in Ids :
       states[id].tag = "Consistent"
       => \/ states'[id].tag = "Equivocated"
          \/ /\ states'[id].tag = "Consistent"
             /\ states'[id].height >= states[id].height]_vars

C36_StaleRecordsInStaleSet ==
  [][Committing =>
       \A id \in Ids :
         /\ (states'[id].tag = "Consistent" /\ states'[id].stale) => id \in stale'
         /\ (id \in stale' /\ id \notin stale)
              <=> /\ states'[id] # states[id]
                  /\ \/ states[id].tag = "None"
                     \/ states[id].tag = "Consistent" /\ ~states[id].stale
         /\ stale \subseteq stale']_vars

\* C36 witness: two batches were processed to their commit shards, each with
\* one prepare for id 1, at two heights: the second overwrote the stale record
\* of the first, and id 1 is in the stale set; the record of another id is not
\* stale and outside the stale set.
C36_Witness ==
  /\ Len(commits) = 2
  /\ \A k \in 1..2 : /\ commits[k].shard.tag = "CommitShard"
                     /\ Len(commits[k].batch.prepares) = 1
                     /\ commits[k].batch.prepares[1].id = 1
  /\ commits[1].batch.prepares[1].height # commits[2].batch.prepares[1].height
  /\ states[1].tag = "Consistent" /\ states[1].stale /\ 1 \in stale
  /\ \E id \in Ids : states[id].tag = "Consistent" /\ ~states[id].stale /\ id \notin stale

(***************************************************************************)
(* Claims on the assignments of a signed batch.                             *)
(***************************************************************************)
\* The ids of `vector` without a stored assignment, in the order of the batch.
missing_ids(vector) ==
  SelectSeq([k \in 1..Len(vector) |-> vector[k].id], LAMBDA id : id \notin assignments)

\* `request` is Assignments of the length of `unknown` whose i-th assignment
\* has the i-th unknown id and validates.
answers(unknown, request) ==
  /\ request.tag = "Assignments"
  /\ Len(request.assignments) = Len(unknown)
  /\ \A k \in 1..Len(unknown) :
       request.assignments[k].id = unknown[k] /\ request.assignments[k].valid

\* C37: a Signatures batch with ids without a stored assignment is answered
\* with UnknownIds of exactly those ids in batch order; the session goes on
\* only if the next request is Assignments of the same length whose i-th
\* assignment has the i-th unknown id and validates: then all are inserted and
\* every id of the batch has a stored assignment when the signatures are
\* verified, with other sessions served side by side.  Any other request ends
\* the session with UnexpectedRequest, MalformedIdAssignments or
\* InvalidIdAssignment and leaves the assignments as they were.
C37_UnknownIdsRoundTrip ==
  [][\A s \in Sessions :
       /\ \A request \in SignaturesRequests(session_prepares[s]) :
            (/\ ReceiveBatch(s, request)
             /\ strictly_increasing(session_prepares[s])
             /\ missing_ids(session_prepares[s]) # <<>>)
            => /\ session_sent'[s]
                    = Append(session_sent[s],
                             [tag |-> "UnknownIds", ids |-> missing_ids(session_prepares[s])])
               /\ session_at'[s] = "receive_assignments"
               /\ assignments' = assignments
       /\ \A request \in PrepareRequests("receive_assignments", session_prepares[s],
                                         session_unknown_ids[s]) :
            ReceiveAssignments(s, request)
            => IF answers(session_unknown_ids[s], request)
               THEN /\ assignments' = assignments \cup
                         {session_unknown_ids[s][k] : k \in 1..Len(session_unknown_ids[s])}
                    /\ \A k \in 1..Len(session_prepares[s]) :
                         session_prepares[s][k].id \in assignments'
                    /\ session_error'[s] \in {"None", "InvalidBatch"}
               ELSE /\ assignments' = assignments
                    /\ session_at'[s] = "done"
                    /\ session_error'[s] \in {"UnexpectedRequest", "MalformedIdAssignments",
                                              "InvalidIdAssignment"}
                    /\ session_sent'[s] = session_sent[s]]_vars

\* C37 witness: a session was asked for two unknown ids, answered, and was
\* sent the witness shard, while another session waits for its assignments.
C37_Witness ==
  \E s, t \in Sessions :
    /\ s # t
    /\ session_at[s] = "receive_witness"
    /\ Len(session_sent[s]) = 2
    /\ session_sent[s][1].tag = "UnknownIds"
    /\ Len(session_sent[s][1].ids) = 2
    /\ session_sent[s][2].tag = "WitnessShard"
    /\ {session_prepares[s][k].id : k \in 1..Len(session_prepares[s])} \subseteq assignments
    /\ session_at[t] = "receive_assignments"

(***************************************************************************)
(* Claims on the highway and the lookup table of a frame.                   *)
(***************************************************************************)
\* The 0-based index just past the last tailless install of the highway whose
\* destination is at most `height`, 0 when there is none.
past_last_tailless(height) ==
  LET upto == {k \in 1..Len(metadata) :
                 metadata[k].tailless /\ metadata[k].destination_height <= height}
  IN  IF upto = {} THEN 0 ELSE CHOOSE k \in upto : \A j \in upto : j <= k

\* C38: after a successful update, for every height h in [base, top) lookup[h]
\* is defined, is smaller than the length of the highway and is the index just
\* past the most recent tailless install whose destination is at most h (0
\* when there is none); lookup is non-decreasing in h, and Frame::lookup(h) is a
\* non-empty suffix of the highway that ends at top.
C38_LookupPastLastTailless ==
  updated = "Some"
  => /\ Len(lookup) = FrameTop - base
     /\ \A h \in base..(FrameTop - 1) :
          LET entry == lookup[h - base + 1]
              suffix == Frame_lookup(base, highway, metadata, lookup, h)
          IN  /\ entry < Len(highway)
              /\ entry = past_last_tailless(h)
              /\ \A g \in base..h : lookup[g - base + 1] <= entry
              /\ suffix # <<>>
              /\ suffix = SubSeq(highway, entry + 1, Len(highway))
              /\ suffix[Len(suffix)].destination_height = FrameTop

\* C38 witness: a highway of three installs whose second is tailless, with
\* lookup entries before and past it.
C38_Witness ==
  /\ updated = "Some"
  /\ Len(highway) = 3
  /\ ~metadata[1].tailless /\ metadata[2].tailless /\ ~metadata[3].tailless
  /\ lookup[1] = 0
  /\ lookup[Len(lookup)] = 2

\* C39: in every frame reached from Frame::genesis by updates with installs
\* whose destination is above their source, the highway is a strictly
\* ascending chain: the source of every install is the destination of the
\* install before it, so the source and the destination columns of the
\* metadata are sorted, as locate_by_source and locate_by_destination need.
C39_HighwayIsAscendingChain ==
  /\ Len(metadata) = Len(highway)
  /\ \A k \in 1..Len(metadata) :
       /\ metadata[k] = into_transition(highway[k])
       /\ metadata[k].source_height < metadata[k].destination_height
       /\ k > 1 => metadata[k].source_height = metadata[k - 1].destination_height
  /\ \A j, k \in 1..Len(metadata) :
       j < k => /\ metadata[j].source_height < metadata[k].source_height
                /\ metadata[j].destination_height < metadata[k].destination_height

\* C39 witness: a highway of three installs that was improved by an install
\* replacing its middle: the last update returned Some without growing the top.
C39_Witness ==
  /\ Len(highway) = 3
  /\ updated = "Some"
  /\ previous_top = FrameTop
  /\ metadata[1].source_height > base

(***************************************************************************)
(* Claims on the sign-up of ids.                                            *)
(***************************************************************************)
\* The call of this step stores no other claim for an id that has one.
stored_claims_kept ==
  \A id \in Ids : signup_claims[id].tag = "Some" => signup_claims'[id] = signup_claims[id]

\* What the claim at position k of `claims` is answered with when its id has a
\* stored claim: the assignment signature for the client of the stored claim,
\* the stored claim for any other client.
answered_by_stored_claim(claims, k) ==
  LET stored == signup_claims[claims[k].id].claim IN
  /\ signup_response'.tag = "IdAssignments"
  /\ Len(signup_response'.signatures) = Len(claims)
  /\ signup_response'.signatures[k]
       = IF stored.client = claims[k].client
         THEN [tag |-> "Ok", signature |-> certify_assignment(claims[k])]
         ELSE [tag |-> "Err", claim |-> stored]

\* C40 (as claimed): across any sequence of id_claims calls each id stays bound
\* to the client of the first valid claim stored for it: a later valid claim for
\* the id by the same client is answered with an assignment signature again,
\* one by a different client with the stored claim and never with an assignment
\* signature, and the stored claim is never replaced.
C40_IdStaysBound ==
  [][\A claims \in ClaimVectors :
       id_claims(claims)
       => /\ stored_claims_kept
          /\ \A k \in 1..Len(claims) :
               (/\ signup_claims[claims[k].id].tag = "Some"
                /\ claims[k].view = "view"
                /\ claims[k].valid)
               => answered_by_stored_claim(claims, k)]_vars

\* C40 (amended): as claimed for the calls none of whose claims is of a foreign
\* view or invalid; a call that holds such a claim returns the error instead of
\* any answer.  In every call the stored claim is never replaced.
C40_IdStaysBoundInAnsweredCalls ==
  [][\A claims \in ClaimVectors :
       id_claims(claims)
       => /\ stored_claims_kept
          /\ IF \A k \in 1..Len(claims) : claims[k].view = "view" /\ claims[k].valid
             THEN \A k \in 1..Len(claims) :
                    signup_claims[claims[k].id].tag = "Some"
                    => answered_by_stored_claim(claims, k)
             ELSE /\ signup_response'.tag = "Err"
                  /\ signup_response'.error \in {"ForeignView", "InvalidRequest"}]_vars

\* C40 witness: a call of two claims for one id was answered with the stored
\* claim for the first, of another client, and with the assignment signature
\* for the second, of the client of the stored claim.
C40_Witness ==
  /\ signup_response.tag = "IdAssignments"
  /\ Len(signup_response.signatures) = 2
  /\ signup_response.signatures[1].tag = "Err"
  /\ signup_response.signatures[2].tag = "Ok"
  /\ signup_response.signatures[2].signature
       = certify_assignment(signup_response.signatures[1].claim)

====
